---- MODULE Spec2Model ----
(***************************************************************************)
(* Preset extraction pipeline of the Ignitron preset tools:                *)
(*   - _extract_lines_to_files of the converter                            *)
(*     (ignitron_preset_converter.py) and of the puller (preset_puller.py) *)
(*   - SerialReader, the background line reader                            *)
(*   - the live capture run (pull_presets / live_serial_capture_and_save)  *)
(*                                                                         *)
(* Text is modelled as a sequence of tokens.  A token is a record          *)
(* [key, val]: a marker, a brace, a path, a JSON member "key": val, or a   *)
(* piece of text that is none of these.  A line is a sequence of tokens.   *)
(***************************************************************************)
EXTENDS Naturals, Sequences, FiniteSets, TLC

----------------------------------------------------------------------------
(* Bounds *)

\* longest input (number of lines) handed to _extract_lines_to_files
MaxLen == 4

----------------------------------------------------------------------------
(* Tokens and lines *)

Token(k, v) == [key |-> k, val |-> v]

RPF  == Token("Reading preset filename:", "")
JS   == Token("JSON STRING:", "")
LB   == Token("{", "")
RB   == Token("}", "")
Junk == Token("#", "")

PathA  == Token("path", "/A.json")
PathAB == Token("path", "/A_BROKEN.json")

\* the JSON keys the programs look at, and one they do not
FieldKeys == {"UUID", "Name", "PresetNumber", "Version", "Description", "Icon", "BPM"}

IsMember(tok) == tok.key \in FieldKeys

NoName == ""

\* str.find / str.index of a token: the first position, 0 when absent
Find(text, tok) ==
    IF \E i \in 1..Len(text) : text[i] = tok
    THEN CHOOSE i \in 1..Len(text) :
            /\ text[i] = tok
            /\ \A j \in 1..(i - 1) : text[j] # tok
    ELSE 0

\* str.rfind of a token: the last position, 0 when absent
RFind(text, tok) ==
    IF \E i \in 1..Len(text) : text[i] = tok
    THEN CHOOSE i \in 1..Len(text) :
            /\ text[i] = tok
            /\ \A j \in (i + 1)..Len(text) : text[j] # tok
    ELSE 0

\* Path(p).name
PathName(p) ==
    CASE p = "/A.json"        -> "A.json"
      [] p = "/A_BROKEN.json" -> "A_BROKEN.json"
      [] OTHER                -> p

\* Path(name).stem
PathStem(name) ==
    CASE name = "A.json"        -> "A"
      [] name = "A_BROKEN.json" -> "A_BROKEN"
      [] OTHER                  -> name

\* str.upper
Upper(s) ==
    CASE s = "ab-1" -> "AB-1"
      [] s = "cd-2" -> "CD-2"
      [] OTHER      -> s

----------------------------------------------------------------------------
(* json.loads / dict *)

\* json.loads accepts the text: one object, every token inside it a member
JsonValid(text) ==
    /\ Len(text) >= 2
    /\ text[1] = LB
    /\ text[Len(text)] = RB
    /\ \A i \in 2..(Len(text) - 1) : IsMember(text[i])

\* position of the last member with the key of member i
LastWithKey(ms, i) ==
    CHOOSE j \in i..Len(ms) :
        /\ ms[j].key = ms[i].key
        /\ \A k \in (j + 1)..Len(ms) : ms[k].key # ms[i].key

RECURSIVE DictOf(_, _)
\* the dict of a member list: a key keeps its first position and its last value
DictOf(ms, i) ==
    IF i > Len(ms) THEN <<>>
    ELSE IF \E j \in 1..(i - 1) : ms[j].key = ms[i].key
         THEN DictOf(ms, i + 1)
         ELSE <<ms[LastWithKey(ms, i)]>> \o DictOf(ms, i + 1)

\* json.loads of a valid text: the ordered mapping, as a member sequence
JsonLoads(text) == DictOf(SubSeq(text, 2, Len(text) - 1), 1)

HasKey(d, k) == \E i \in 1..Len(d) : d[i].key = k

\* dict.get(k, default)
DictGet(d, k, default) ==
    IF HasKey(d, k) THEN d[CHOOSE i \in 1..Len(d) : d[i].key = k].val ELSE default

\* dict.pop(k, None)
DictPop(d, k) == SelectSeq(d, LAMBDA m : m.key # k)

\* d[k] = v in place of dict.setdefault(k, v): a present value is replaced
DictSetOverwrite(d, k, v) ==
    IF HasKey(d, k)
    THEN [i \in 1..Len(d) |-> IF d[i].key = k THEN Token(k, v) ELSE d[i]]
    ELSE Append(d, Token(k, v))

\* dict.setdefault(k, v)
DictSetDefault(d, k, v) == IF HasKey(d, k) THEN d ELSE Append(d, Token(k, v))

\* d[k] = str(d[k]).upper() for a present key
DictUpperKey(d, k) ==
    [i \in 1..Len(d) |-> IF d[i].key = k THEN Token(k, Upper(d[i].val)) ELSE d[i]]

\* preset_puller._clean_json_text: first "{" to last "}", else the text itself
clean_json_text(text) ==
    LET start == Find(text, LB)
        end   == RFind(text, RB)
    IN IF start # 0 /\ end # 0 /\ end >= start
       THEN SubSeq(text, start, end)
       ELSE text

\* preset_puller._normalize_for_ignitron
normalize_for_ignitron(preset) ==
    LET p1 == DictPop(preset, "PresetNumber")
        p2 == DictSetDefault(p1, "Version", "0.7")
        p3 == DictSetDefault(p2, "Description", "")
        p4 == DictSetDefault(p3, "Icon", "icon.png")
        p5 == DictSetDefault(p4, "BPM", "120.0")
    IN IF HasKey(p5, "UUID") THEN DictUpperKey(p5, "UUID") ELSE p5

\* preset_puller._basename
basename(name) == PathName(name)

\* a file's content: a dumped preset object, or raw text
PresetFile(d) == [kind |-> "preset", data |-> d]
RawFile(text) == [kind |-> "raw", data |-> text]

\* the filesystem after writing content under name (open(.., "w"))
WriteFile(fs, name, content) ==
    [n \in (DOMAIN fs) \cup {name} |-> IF n = name THEN content ELSE fs[n]]

NoFiles == [n \in {} |-> RawFile(<<>>)]

\* include_only: None, or a set of filenames
NoFilter == [is_none |-> TRUE, names |-> {}]
Filter(S) == [is_none |-> FALSE, names |-> S]

----------------------------------------------------------------------------
(* The converter's _extract_lines_to_files *)

\* FILENAME_RE.search(line): the announcement marker followed by a path
filename_match(line) ==
    LET i == Find(line, RPF)
    IN i # 0 /\ i < Len(line) /\ line[i + 1].key = "path"

\* Path(fm.group(1).strip()).name
filename_group(line) == PathName(line[Find(line, RPF) + 1].val)

\* JSON_RE.search(line): the payload marker, then "{" ... up to the last "}"
json_match(line) ==
    LET i == Find(line, JS)
    IN /\ i # 0 /\ i < Len(line)
       /\ line[i + 1] = LB
       /\ RFind(line, RB) > i + 1

\* jm.group(1).strip()
json_group(line) == SubSeq(line, Find(line, JS) + 1, RFind(line, RB))

\* the locals of the converter's _extract_lines_to_files on entry.
\* scanned is not a variable of the source: it counts the captures that
\* reach the classification (a payload line that JSON_RE matches).
ConvLocals0 ==
    [saved |-> 0, skipped_dupe |-> 0, skipped_no_filename |-> 0, broken |-> 0,
     skipped_not_in_list |-> 0, entries |-> <<>>, current_filename |-> NoName,
     scanned |-> 0]

\* a state of an extraction: the locals, the output directory, and the
\* names written as preset files so far in this run, in order
XState(loc, fs, w) == [loc |-> loc, files |-> fs, written |-> w]

\* conv_save without the test for an existing file: a later arrival overwrites
conv_save_overwrite(x, raw_json, inc) ==
    LET c    == x.loc
        name == c.current_filename
    IN IF JsonValid(raw_json)
       THEN XState([c EXCEPT !.saved = @ + 1,
                             !.entries = Append(@,
                                 [name |-> name,
                                  uuid |-> Upper(DictGet(JsonLoads(raw_json), "UUID", "UNKNOWN"))]),
                             !.current_filename = NoName],
                   WriteFile(x.files, name, PresetFile(JsonLoads(raw_json))),
                   Append(x.written, name))
       ELSE XState([c EXCEPT !.broken = @ + 1, !.current_filename = NoName],
                   WriteFile(x.files, PathStem(name) \o "_BROKEN.json", RawFile(raw_json)),
                   x.written)

\* conv_save with an index entry for a duplicate as well
conv_save_index_dupe(x, raw_json, inc) ==
    LET c    == x.loc
        name == c.current_filename
        line == [name |-> name,
                 uuid |-> Upper(DictGet(JsonLoads(raw_json), "UUID", "UNKNOWN"))]
    IN IF JsonValid(raw_json)
       THEN IF name \in DOMAIN x.files
            THEN XState([c EXCEPT !.skipped_dupe = @ + 1,
                                  !.entries = Append(@, line),
                                  !.current_filename = NoName],
                        x.files, x.written)
            ELSE XState([c EXCEPT !.saved = @ + 1,
                                  !.entries = Append(@, line),
                                  !.current_filename = NoName],
                        WriteFile(x.files, name, PresetFile(JsonLoads(raw_json))),
                        Append(x.written, name))
       ELSE XState([c EXCEPT !.broken = @ + 1, !.current_filename = NoName],
                   WriteFile(x.files, PathStem(name) \o "_BROKEN.json", RawFile(raw_json)),
                   x.written)

\* lines 157-179: parse, deduplicate on the existing file, write or stub
conv_save(x, raw_json, inc) ==
    LET c    == x.loc
        name == c.current_filename
    IN IF JsonValid(raw_json)
       THEN LET parsed == JsonLoads(raw_json)
            IN IF name \in DOMAIN x.files
               THEN XState([c EXCEPT !.skipped_dupe = @ + 1,
                                     !.current_filename = NoName],
                           x.files, x.written)
               ELSE XState([c EXCEPT !.saved = @ + 1,
                                     !.entries = Append(@,
                                         [name |-> name,
                                          uuid |-> Upper(DictGet(parsed, "UUID", "UNKNOWN"))]),
                                     !.current_filename = NoName],
                           WriteFile(x.files, name, PresetFile(parsed)),
                           Append(x.written, name))
       ELSE XState([c EXCEPT !.broken = @ + 1, !.current_filename = NoName],
                   WriteFile(x.files, PathStem(name) \o "_BROKEN.json", RawFile(raw_json)),
                   x.written)

\* lines 133-179: the body of the loop for one line
conv_line(x, line, inc) ==
    LET c == x.loc
    IN IF filename_match(line)
       THEN XState([c EXCEPT !.current_filename = filename_group(line)],
                   x.files, x.written)
       ELSE IF Find(line, JS) = 0 \/ ~json_match(line)
       THEN x
       ELSE IF c.current_filename = NoName
       THEN XState([c EXCEPT !.skipped_no_filename = @ + 1, !.scanned = @ + 1],
                   x.files, x.written)
       ELSE IF ~inc.is_none /\ c.current_filename \notin inc.names
       THEN XState([c EXCEPT !.skipped_not_in_list = @ + 1, !.scanned = @ + 1,
                             !.current_filename = NoName],
                   x.files, x.written)
       ELSE conv_save(XState([c EXCEPT !.scanned = @ + 1], x.files, x.written),
                      json_group(line), inc)

----------------------------------------------------------------------------
(* The puller's _write_preset_file and _extract_lines_to_files *)

RECURSIVE JoinLines(_)
\* "\n".join(buffer)
JoinLines(buffer) ==
    IF buffer = <<>> THEN <<>> ELSE Head(buffer) \o JoinLines(Tail(buffer))

\* _write_preset_file: [ok, files]; a parse failure is caught and returns False
write_preset_file(filename, buffer, fs, inc) ==
    LET json_text == clean_json_text(JoinLines(buffer))
    IN IF JsonValid(json_text)
       THEN LET preset == normalize_for_ignitron(JsonLoads(json_text))
                base   == basename(filename)
            IN IF inc.is_none \/ base \in inc.names
               THEN [ok |-> TRUE, files |-> WriteFile(fs, base, PresetFile(preset))]
               ELSE [ok |-> FALSE, files |-> fs]
       ELSE [ok |-> FALSE, files |-> fs]

\* the locals of the puller's _extract_lines_to_files on entry
PullLocals0 ==
    [scanned |-> 0, saved |-> 0, skipped |-> 0, duplicate |-> 0,
     seen_files |-> {}, filename |-> NoName, buffer |-> <<>>, collecting |-> FALSE]

\* pull_flush with the duplicate left uncounted
pull_flush_uncounted_duplicate(x, inc) ==
    LET p == x.loc
    IN IF p.filename # NoName /\ p.buffer # <<>>
       THEN LET base == basename(p.filename)
            IN IF base \in p.seen_files
               THEN XState([p EXCEPT !.scanned = @ + 1], x.files, x.written)
               ELSE LET r == write_preset_file(p.filename, p.buffer, x.files, inc)
                    IN XState([p EXCEPT !.scanned = @ + 1,
                                        !.saved = IF r.ok THEN @ + 1 ELSE @,
                                        !.skipped = IF r.ok THEN @ ELSE @ + 1,
                                        !.seen_files = @ \cup {base}],
                              r.files,
                              IF r.ok THEN Append(x.written, base) ELSE x.written)
       ELSE x

\* lines 213-224 and 244-255: classify the capture that has just ended
pull_flush(x, inc) ==
    LET p == x.loc
    IN IF p.filename # NoName /\ p.buffer # <<>>
       THEN LET base == basename(p.filename)
            IN IF base \in p.seen_files
               THEN XState([p EXCEPT !.scanned = @ + 1, !.duplicate = @ + 1],
                           x.files, x.written)
               ELSE LET r == write_preset_file(p.filename, p.buffer, x.files, inc)
                    IN XState([p EXCEPT !.scanned = @ + 1,
                                        !.saved = IF r.ok THEN @ + 1 ELSE @,
                                        !.skipped = IF r.ok THEN @ ELSE @ + 1,
                                        !.seen_files = @ \cup {base}],
                              r.files,
                              IF r.ok THEN Append(x.written, base) ELSE x.written)
       ELSE x

\* lines 209-242: the body of the loop for one line
pull_line(x, line, inc) ==
    IF line # <<>> /\ line[1] = RPF
    THEN LET y == pull_flush(x, inc)
         IN XState([y.loc EXCEPT !.filename = IF Len(line) >= 2 THEN line[2].val ELSE NoName,
                                 !.buffer = <<>>,
                                 !.collecting = FALSE],
                   y.files, y.written)
    ELSE IF Find(line, JS) # 0 /\ Find(line, LB) # 0
    THEN XState([x.loc EXCEPT !.collecting = TRUE,
                              !.buffer = Append(@, SubSeq(line, Find(line, LB), Len(line)))],
                x.files, x.written)
    ELSE IF line # <<>> /\ line[1] = LB
    THEN XState([x.loc EXCEPT !.collecting = TRUE, !.buffer = Append(@, line)],
                x.files, x.written)
    ELSE IF x.loc.collecting
    THEN XState([x.loc EXCEPT !.buffer = Append(@, line)], x.files, x.written)
    ELSE x

----------------------------------------------------------------------------
(* _extract_lines_to_files as a whole *)

RECURSIVE conv_loop(_, _, _, _)
\* the converter's for loop from line i on
conv_loop(x, lines, i, inc) ==
    IF i > Len(lines) THEN x
    ELSE conv_loop(conv_line(x, lines[i], inc), lines, i + 1, inc)

\* the converter's _extract_lines_to_files into a directory holding fs
conv_extract(lines, fs, inc) == conv_loop(XState(ConvLocals0, fs, <<>>), lines, 1, inc)

RECURSIVE pull_loop(_, _, _, _)
\* the puller's for loop from line i on
pull_loop(x, lines, i, inc) ==
    IF i > Len(lines) THEN x
    ELSE pull_loop(pull_line(x, lines[i], inc), lines, i + 1, inc)

\* the puller's _extract_lines_to_files into a directory holding fs
pull_extract(lines, fs, inc) ==
    pull_flush(pull_loop(XState(PullLocals0, fs, <<>>), lines, 1, inc), inc)

----------------------------------------------------------------------------
(* Inputs of an extraction *)

Valid1 == <<LB, Token("UUID", "ab-1"), RB>>
Valid2 == <<LB, Token("Name", "x"), RB>>

\* the lines a device log is made of here
LogLines ==
    { <<RPF, PathA>>,                    \* Reading preset filename: /A.json
      <<RPF, PathAB>>,                   \* Reading preset filename: /A_BROKEN.json
      <<JS>> \o Valid1,                  \* JSON STRING: {"UUID": "ab-1"}
      <<JS>> \o Valid2,                  \* JSON STRING: {"Name": "x"}
      <<JS, LB, Junk, RB>>,              \* JSON STRING: {#}       (malformed)
      <<JS, LB, Token("Name", "x")>>,    \* JSON STRING: {"Name": "x"   (left open)
      <<RB>>,                            \* }
      <<LB, Token("UUID", "cd-2"), RB>>, \* {"UUID": "cd-2"}       (no marker)
      <<Junk>>                           \* #                      (noise)
    }

Inputs == UNION {[1..n -> LogLines] : n \in 0..MaxLen}

Filters == {NoFilter, Filter({}), Filter({"A.json"})}

----------------------------------------------------------------------------
(* State *)

VARIABLES
    impl,          \* which program runs: "converter" or "puller"
    lines,         \* the argument lines
    include_only,  \* the argument include_only
    pos,           \* the for loop's position in lines
    pc,            \* "loop", "done"
    run,           \* "first" or "second" call into the same out_dir, or
                   \* "again": the call of a later conversion into it
    files,         \* out_dir: filename -> content
    index_file,    \* the converter's index file: the lines appended to it
    written,       \* names written as preset files in this call, in order
    conv,          \* the converter's locals
    pull           \* the puller's locals

\* the state of an extraction
xvars == <<impl, lines, include_only, pos, pc, run, files, index_file, written, conv, pull>>

VARIABLES
    r_pc,          \* SerialReader.run: "idle", "open", "except_open", "test",
                   \*   "read", "except_read", "finally", "done"
    ser,           \* SerialReader.ser: "none", "open", "closed"
    stop_flag,     \* SerialReader._stop
    q,             \* SerialReader.q
    buf,           \* the bytearray buf of run
    wire,          \* bytes the device has sent and run has not read yet
    dev_out,       \* what the device will still send, in pieces
    link,          \* the transport: "ok" or "down"
    may_fail,      \* whether the transport can go down in this behaviour
    c_pc,          \* the consumer's position
    got            \* the messages the consumer has taken from q, in order

\* the state of the reader thread, its transport and its consumer
rvars == <<r_pc, ser, stop_flag, q, buf, wire, dev_out, link, may_fail, c_pc, got>>

VARIABLES
    active,        \* the argument include_only_active of a live capture
    profile,       \* the device: what it answers to each request
    sent,          \* the requests written to the transport, in order
    banks_lines,   \* the local banks_lines
    got_banks,     \* the local got_banks
    presets_lines, \* the local presets_lines
    got_lp,        \* the local got_lp
    waited         \* queue timeouts in the current wait loop

\* the state of a live capture
lvars == <<active, profile, sent, banks_lines, got_banks, presets_lines, got_lp, waited>>

VARIABLES
    dist_file,     \* the exported dist/PresetList_*.txt: its lines, <<>> if not written
    p_pc,          \* a run that only parses a bank list: "parse", "export", "done"
    p_out          \* what parse_presetlist_from_lines returned

\* the state of the bank-list export
bvars == <<dist_file, p_pc, p_out>>

VARIABLES
    gui,                \* which GUI runs: "builder", "gnitron_builder", "picker"
    bank_count,         \* self.bank_count
    slots,              \* self.slots: <<bank, slot>> -> filename or None
    slot_widgets,       \* self.slot_widgets: <<bank, slot>> -> the label's text
    used_counts,        \* self.used_counts: filename -> count
    last_placed_global, \* self.last_placed_global
    export_file,        \* the exported PresetList file: its lines, <<>> if not written
    uuid_file,          \* the exported PresetListUUIDs.txt, <<>> if not written
    dialog,             \* the message box the last handler showed, "none" if none
    ops                 \* handlers run so far

\* the state of a GUI builder
gvars == <<gui, bank_count, slots, slot_widgets, used_counts, last_placed_global,
           export_file, uuid_file, dialog, ops>>

VARIABLES
    out_dir_exists,     \* the run's output directory exists
    index_exists        \* the converter's index file exists

\* what exists of a run's output
dvars == <<out_dir_exists, index_exists>>

VARIABLES
    spark               \* the locals of the Spark app scraper's main

\* the state of the Spark app scraper
svars == <<spark>>

VARIABLES
    norm_in,            \* the preset _normalize_for_ignitron is called with
    norm_out            \* what it returned

\* a call of _normalize_for_ignitron
nvars == <<norm_in, norm_out>>

vars == <<xvars, rvars, lvars, bvars, gvars, dvars, svars, nvars>>

\* None
None == "None"

\* nothing returned yet
NoResult == [kind |-> "none", items |-> <<>>]

\* no bank-list export: the state of bvars in a run without one
BankIdle == dist_file = <<>> /\ p_pc = "done" /\ p_out = NoResult

\* no GUI: the state of gvars in a run without one
GuiIdle ==
    /\ gui = "none" /\ bank_count = 0 /\ slots = <<>> /\ slot_widgets = <<>>
    /\ used_counts = <<>> /\ last_placed_global = None
    /\ export_file = <<>> /\ uuid_file = <<>> /\ dialog = "none" /\ ops = 0

\* the device of a run that does not talk to one
NoDevice == [banks |-> <<>>, presets |-> <<>>]

\* no live capture: the state of lvars in a run without one
LiveIdle ==
    /\ active = FALSE /\ profile = NoDevice /\ sent = <<>>
    /\ banks_lines = <<>> /\ got_banks = FALSE
    /\ presets_lines = <<>> /\ got_lp = FALSE /\ waited = 0

\* no reader: the state of rvars in a run that only extracts
ReaderIdle ==
    /\ r_pc = "idle" /\ ser = "none" /\ stop_flag = FALSE /\ q = <<>> /\ buf = <<>>
    /\ wire = <<>> /\ dev_out = <<>> /\ link = "ok" /\ may_fail = FALSE
    /\ c_pc = "extract" /\ got = <<>>

\* the scraper's locals before its loop, lines 38-40. parses is not a
\* variable of the source: it counts the calls of json.loads
SparkLocals0 == [last_uuid |-> None, buffer |-> <<>>, capturing |-> FALSE, parses |-> 0]

\* no scraper: the state of svars in a run without one
ScraperIdle == spark = SparkLocals0

\* _normalize_for_ignitron has not returned
NotReturned == [returned |-> FALSE, preset |-> <<>>]

\* no call of the normalizer: the state of nvars in a run without one
NormIdle == norm_in = <<>> /\ norm_out = NotReturned

\* a run that creates no output directory
NoOutput == out_dir_exists = FALSE /\ index_exists = FALSE

\* the output directory after safe_mkdir, before anything is written
OutputCreated == out_dir_exists = TRUE /\ index_exists = FALSE

Init ==
    /\ impl \in {"converter", "puller"}
    /\ lines \in Inputs
    /\ include_only \in Filters
    /\ pos = 1
    /\ pc = "loop"
    /\ run = "first"
    /\ files = NoFiles
    /\ index_file = <<>>
    /\ written = <<>>
    /\ conv = ConvLocals0
    /\ pull = PullLocals0
    /\ ReaderIdle
    /\ LiveIdle
    /\ BankIdle
    /\ GuiIdle
    /\ OutputCreated
    /\ ScraperIdle
    /\ NormIdle

\* converter, lines 216-231 and 253-255: print_summary calls cleanup_if_empty
\* when nothing was saved, which unlinks every file of out_dir, removes the
\* directory and unlinks the index. The puller's print_summary, lines
\* 117-123, only prints
print_summary(im, saved, d) ==
    IF im = "converter" /\ saved = 0
    THEN [files |-> NoFiles, index_file |-> <<>>, out_dir_exists |-> FALSE,
          index_exists |-> FALSE]
    ELSE d

\* converter, lines 133-179: one iteration of the for loop
ConvLine ==
    /\ impl = "converter" /\ pc = "loop" /\ pos <= Len(lines)
    /\ LET r == conv_line(XState(conv, files, written), lines[pos], include_only)
       IN /\ conv' = r.loc
          /\ files' = r.files
          /\ written' = r.written
    /\ pos' = pos + 1
    /\ UNCHANGED <<impl, lines, include_only, pc, run, index_file, pull, rvars, lvars, bvars, gvars, dvars, svars, nvars>>

\* converter, lines 181-192: append the entries to the index and return
ConvReturn ==
    /\ impl = "converter" /\ pc = "loop" /\ pos > Len(lines)
    /\ index_file' = index_file \o conv.entries
    /\ index_exists' = (index_exists \/ conv.entries # <<>>)
    /\ pc' = "done"
    /\ UNCHANGED <<impl, lines, include_only, pos, run, files, written, conv, pull, rvars, lvars,
                   bvars, gvars, out_dir_exists, svars, nvars>>

\* puller, lines 209-242: one iteration of the for loop
PullLine ==
    /\ impl = "puller" /\ pc = "loop" /\ pos <= Len(lines)
    /\ LET r == pull_line(XState(pull, files, written), lines[pos], include_only)
       IN /\ pull' = r.loc
          /\ files' = r.files
          /\ written' = r.written
    /\ pos' = pos + 1
    /\ UNCHANGED <<impl, lines, include_only, pc, run, index_file, conv, rvars, lvars, bvars, gvars, dvars, svars, nvars>>

\* puller, lines 244-257: classify the last capture and return
PullReturn ==
    /\ impl = "puller" /\ pc = "loop" /\ pos > Len(lines)
    /\ LET r == pull_flush(XState(pull, files, written), include_only)
       IN /\ pull' = r.loc
          /\ files' = r.files
          /\ written' = r.written
    /\ pc' = "done"
    /\ UNCHANGED <<impl, lines, include_only, pos, run, index_file, conv, rvars, lvars, bvars, gvars, dvars, svars, nvars>>

\* _extract_lines_to_files is called again with the same lines and the same
\* out_dir: safe_mkdir keeps what is there, the locals start afresh
Rerun ==
    /\ pc = "done" /\ run = "first"
    /\ run' = "second"
    /\ pos' = 1
    /\ pc' = "loop"
    /\ written' = <<>>
    /\ conv' = ConvLocals0
    /\ pull' = PullLocals0
    /\ UNCHANGED <<impl, lines, include_only, files, index_file, rvars, lvars, bvars, gvars, dvars, svars, nvars>>

\* the saved count print_summary is given: that of the call, or the sum
\* over the two calls of a folder conversion (converter, lines 203-212)
TotalSaved ==
    LET now   == IF impl = "converter" THEN conv.saved ELSE pull.saved
        first == IF impl = "converter"
                 THEN conv_extract(lines, NoFiles, include_only).loc.saved
                 ELSE pull_extract(lines, NoFiles, include_only).loc.saved
    IN IF run = "second" THEN first + now ELSE now

\* converter, lines 871 / 882 / 893, puller, line 332: print_summary ends
\* the run
Summary ==
    /\ pc = "done"
    /\ pc' = "finalized"
    /\ LET d == print_summary(impl, TotalSaved,
                              [files |-> files, index_file |-> index_file,
                               out_dir_exists |-> out_dir_exists,
                               index_exists |-> index_exists])
       IN /\ files' = d.files
          /\ index_file' = d.index_file
          /\ out_dir_exists' = d.out_dir_exists
          /\ index_exists' = d.index_exists
    /\ UNCHANGED <<impl, lines, include_only, pos, run, written, conv, pull, rvars, lvars,
                   bvars, gvars, svars, nvars>>

\* converter, lines 70-83 and 869-870: the same input is converted again
\* within the minute of the timestamp: resolve_out_paths gives the same
\* out_dir and the same index, safe_mkdir makes the directory if it is gone
Restart ==
    /\ pc = "finalized" /\ run # "again"
    /\ run' = "again"
    /\ pos' = 1
    /\ pc' = "loop"
    /\ written' = <<>>
    /\ conv' = ConvLocals0
    /\ pull' = PullLocals0
    /\ out_dir_exists' = TRUE
    /\ UNCHANGED <<impl, lines, include_only, files, index_file, index_exists, rvars, lvars,
                   bvars, gvars, svars, nvars>>

Next ==
    ConvLine \/ ConvReturn \/ PullLine \/ PullReturn \/ Rerun \/ Summary \/ Restart

Spec == Init /\ [][Next]_vars

----------------------------------------------------------------------------
(* Properties of _extract_lines_to_files *)

Range(sq) == {sq[i] : i \in 1..Len(sq)}

\* the lines of the input, named
FnA     == <<RPF, PathA>>
FnAB    == <<RPF, PathAB>>
Js1     == <<JS>> \o Valid1
Js2     == <<JS>> \o Valid2
JsBad   == <<JS, LB, Junk, RB>>

\* C1: after every processed line the captures scanned are exactly the
\* captures counted: scanned = saved + skipped_dupe + skipped_no_filename +
\* skipped_not_in_list + broken in the converter, and scanned = saved +
\* skipped + duplicate in the puller.
C1_CountersBalance ==
    /\ conv.scanned = conv.saved + conv.skipped_dupe + conv.skipped_no_filename
                      + conv.skipped_not_in_list + conv.broken
    /\ pull.scanned = pull.saved + pull.skipped + pull.duplicate

\* a puller run that has saved, skipped and counted a duplicate
C1_Witness ==
    /\ impl = "puller" /\ pc = "done"
    /\ pull.saved = 1 /\ pull.duplicate = 1 /\ pull.scanned = 2

\* the step classifies a capture announced under the name n
ConvArrival(n) ==
    impl = "converter" /\ conv'.scanned = conv.scanned + 1 /\ conv.current_filename = n

PullArrival(n) ==
    impl = "puller" /\ pull'.scanned = pull.scanned + 1 /\ basename(pull.filename) = n

\* the payload of the capture the step classifies parses
ConvPayloadValid == JsonValid(json_group(lines[pos]))
PullPayloadValid == JsonValid(clean_json_text(JoinLines(pull.buffer)))

\* C2 as claimed: a second arrival of a filename already saved in this run
\* is counted as a duplicate, saved does not increase and the file keeps the
\* content of the first occurrence.
C2_SecondArrivalIsDuplicate ==
    [][\A n \in Range(written) :
          /\ ConvArrival(n) =>
                /\ conv'.skipped_dupe = conv.skipped_dupe + 1
                /\ conv'.saved = conv.saved
                /\ files'[n] = files[n]
          /\ PullArrival(n) =>
                /\ pull'.duplicate = pull.duplicate + 1
                /\ pull'.saved = pull.saved
                /\ files'[n] = files[n]]_vars

\* C2 amended: a preset file is written at most once per name and run; a
\* second arrival of a saved filename never rewrites the file and never
\* increases saved; it is counted as a duplicate, except in the converter
\* when its payload does not parse: then it is counted as broken.
C2_SecondArrivalNotRewritten ==
    [][/\ \A n \in Range(written) :
          /\ ConvArrival(n) =>
                /\ conv'.saved = conv.saved
                /\ files'[n] = files[n]
                /\ written' = written
                /\ IF ConvPayloadValid
                   THEN /\ conv'.skipped_dupe = conv.skipped_dupe + 1
                        /\ conv'.broken = conv.broken
                   ELSE /\ conv'.skipped_dupe = conv.skipped_dupe
                        /\ conv'.broken = conv.broken + 1
          /\ PullArrival(n) =>
                /\ pull'.duplicate = pull.duplicate + 1
                /\ pull'.saved = pull.saved
                /\ files' = files
                /\ written' = written
       /\ (run' = run /\ written' # written) =>
                /\ Len(written') = Len(written) + 1
                /\ SubSeq(written', 1, Len(written)) = written
                /\ written'[Len(written')] \notin Range(written)]_vars

\* the same filename saved and then announced again with another payload
C2_Witness ==
    /\ impl = "converter" /\ run = "first" /\ pos = 5
    /\ lines = <<FnA, Js1, FnA, Js2>>
    /\ conv.saved = 1 /\ conv.skipped_dupe = 1
    /\ files["A.json"] = PresetFile(JsonLoads(Valid1))

\* C3: in a run into an empty directory a capture is counted as a duplicate
\* only if a preset of the same filename was saved earlier in the run.
C3_DuplicateOnlyAfterSaved ==
    [][run = "first" =>
          /\ conv'.skipped_dupe > conv.skipped_dupe =>
                conv.current_filename \in Range(written)
          /\ pull'.duplicate > pull.duplicate =>
                basename(pull.filename) \in Range(written)]_vars

FilterAllows(n) == include_only.is_none \/ n \in include_only.names

\* C4: a valid capture whose filename was not saved yet is written if and
\* only if there is no filter or the filename is in it; when the filter
\* excludes it, it is counted as skipped and nothing is written.
C4_FilteringLaw ==
    [][\A n \in {"A.json", "A_BROKEN.json"} \ Range(written) :
          /\ (run = "first" /\ ConvArrival(n) /\ ConvPayloadValid) =>
                IF FilterAllows(n)
                THEN /\ written' = Append(written, n)
                     /\ files' = WriteFile(files, n, PresetFile(JsonLoads(json_group(lines[pos]))))
                ELSE /\ conv'.skipped_not_in_list = conv.skipped_not_in_list + 1
                     /\ files' = files
          /\ (run = "first" /\ PullArrival(n) /\ PullPayloadValid) =>
                IF FilterAllows(n)
                THEN /\ written' = Append(written, n)
                     /\ n \in DOMAIN files'
                ELSE /\ pull'.skipped = pull.skipped + 1
                     /\ files' = files]_vars

\* the preset files of a directory (the dumped objects, not the raw stubs)
PresetFiles(fs) == [n \in {m \in DOMAIN fs : fs[m].kind = "preset"} |-> fs[n]]

\* lines without the two lines at i and i + 1
WithoutPair(ls, i) == SubSeq(ls, 1, i - 1) \o SubSeq(ls, i + 2, Len(ls))

JsOpen == <<JS, LB, Token("Name", "x")>>

\* the capture at i is an announcement and the payload "{#}"; it is the
\* only payload of the input that is not one valid object on its line, the
\* line before it ends a capture and the line after it starts one
MalformedAt(ls, i) ==
    /\ i + 1 <= Len(ls)
    /\ ls[i] \in {FnA, FnAB}
    /\ ls[i + 1] = JsBad
    /\ \A j \in 1..Len(ls) : ls[j] \in {JsBad, JsOpen, <<RB>>} => j = i + 1
    /\ i > 1 => ls[i - 1] \notin {FnA, FnAB}
    /\ i + 2 <= Len(ls) => ls[i + 2] \in {FnA, FnAB}

\* C6: a run over an input with a malformed capture ends, counts that
\* capture as broken (puller: skipped) once, and saves every other capture
\* exactly as the run over the input without the malformed capture does.
C6_MalformedIsIsolated ==
    (pc = "done" /\ run = "first") =>
        \A i \in 1..Len(lines) :
            MalformedAt(lines, i) =>
                /\ impl = "converter" =>
                      LET r == conv_extract(WithoutPair(lines, i), NoFiles, include_only)
                      IN /\ PresetFiles(files) = PresetFiles(r.files)
                         /\ conv.saved = r.loc.saved
                         /\ FilterAllows(filename_group(lines[i])) =>
                               conv.broken = r.loc.broken + 1
                /\ impl = "puller" =>
                      LET r == pull_extract(WithoutPair(lines, i), NoFiles, include_only)
                      IN /\ PresetFiles(files) = PresetFiles(r.files)
                         /\ pull.saved = r.loc.saved
                         /\ pull.skipped = r.loc.skipped + 1

\* C7: when a capture's payload fails to parse, its raw text is written
\* under a broken name other than the target filename, and no file appears
\* under the target filename.
C7_BrokenStubPersisted ==
    [][/\ conv'.broken = conv.broken + 1 =>
            LET n == conv.current_filename
            IN /\ PathStem(n) \o "_BROKEN.json" # n
               /\ PathStem(n) \o "_BROKEN.json" \in DOMAIN files'
               /\ files'[PathStem(n) \o "_BROKEN.json"] = RawFile(json_group(lines[pos]))
               /\ n \notin DOMAIN files => n \notin DOMAIN files'
       /\ \A n \in {"A.json", "A_BROKEN.json"} :
            (PullArrival(n) /\ n \notin pull.seen_files /\ ~PullPayloadValid) =>
               /\ \E f \in DOMAIN files' \ {n} :
                     files'[f] = RawFile(clean_json_text(JoinLines(pull.buffer)))
               /\ n \notin DOMAIN files => n \notin DOMAIN files']_vars

\* C8: a second run over the same input into the same directory saves
\* nothing, counts every capture the first run saved as a duplicate, and
\* leaves the directory as the first run left it.
C8_RerunCountsDuplicates ==
    (pc = "done" /\ run = "second") =>
        /\ impl = "converter" =>
              LET r1 == conv_extract(lines, NoFiles, include_only)
              IN /\ conv.saved = 0
                 /\ conv.skipped_dupe = r1.loc.saved + r1.loc.skipped_dupe
                 /\ files = r1.files
        /\ impl = "puller" =>
              LET r1 == pull_extract(lines, NoFiles, include_only)
              IN /\ pull.saved = 0
                 /\ pull.duplicate = r1.loc.saved + r1.loc.duplicate
                 /\ files = r1.files

----------------------------------------------------------------------------
(* SerialReader *)

LF == Token("LF", "")
CR == Token("CR", "")

LineMsg(line) == [typ |-> "line", payload |-> line]
ErrorMsg(text) == [typ |-> "__ERROR__", payload |-> <<Token(text, "")>>]

\* buf.decode(errors="ignore").rstrip("\r")
RECURSIVE RStripCR(_)
RStripCR(text) ==
    IF text # <<>> /\ text[Len(text)] = CR
    THEN RStripCR(SubSeq(text, 1, Len(text) - 1))
    ELSE text

\* feed_byte that puts a new line before the lines of the same chunk
feed_byte_prepends(st, b) ==
    IF b = LF
    THEN [buf |-> <<>>, out |-> <<LineMsg(RStripCR(st.buf))>> \o st.out]
    ELSE IF b # CR
    THEN [buf |-> Append(st.buf, b), out |-> st.out]
    ELSE st

\* run, lines 66-72: one byte of a chunk, on [buf, out]
feed_byte(st, b) ==
    IF b = LF
    THEN [buf |-> <<>>, out |-> Append(st.out, LineMsg(RStripCR(st.buf)))]
    ELSE IF b # CR
    THEN [buf |-> Append(st.buf, b), out |-> st.out]
    ELSE st

RECURSIVE feed_chunk(_, _)
\* run, lines 66-72: the for loop over a chunk
feed_chunk(st, chunk) ==
    IF chunk = <<>> THEN st
    ELSE feed_chunk(feed_byte(st, Head(chunk)), Tail(chunk))

\* run, lines 54-58: open the transport
reader_open ==
    /\ r_pc = "open"
    /\ IF link = "ok"
       THEN ser' = "open" /\ r_pc' = "test"
       ELSE ser' = ser /\ r_pc' = "except_open"
    /\ buf' = <<>>
    /\ UNCHANGED <<stop_flag, q, wire, dev_out, link, may_fail, c_pc, got, xvars, lvars, bvars, gvars, dvars, svars, nvars>>

\* run, lines 56-58: the open failed: report it and return
reader_except_open ==
    /\ r_pc = "except_open"
    /\ q' = Append(q, ErrorMsg("Serial open failed"))
    /\ r_pc' = "done"
    /\ UNCHANGED <<ser, stop_flag, buf, wire, dev_out, link, may_fail, c_pc, got, xvars, lvars,
                   bvars, gvars, dvars, svars, nvars>>

\* run, line 62: while not self._stop.is_set()
reader_test ==
    /\ r_pc = "test"
    /\ r_pc' = IF stop_flag THEN "finally" ELSE "read"
    /\ UNCHANGED <<ser, stop_flag, q, buf, wire, dev_out, link, may_fail, c_pc, got, xvars, lvars,
                   bvars, gvars, dvars, svars, nvars>>

\* run, lines 63-72: read what has arrived and put its lines on the queue
reader_read_chunk ==
    /\ r_pc = "read" /\ ser = "open" /\ link = "ok"
    /\ LET st == feed_chunk([buf |-> buf, out |-> <<>>], wire)
       IN /\ buf' = st.buf
          /\ q' = q \o st.out
    /\ wire' = <<>>
    /\ r_pc' = "test"
    /\ UNCHANGED <<ser, stop_flag, dev_out, link, may_fail, c_pc, got, xvars, lvars, bvars, gvars, dvars, svars, nvars>>

\* run, line 63: the read raises: the transport is down, or stop() has
\* closed it under the read
reader_read_raises ==
    /\ r_pc = "read" /\ (ser = "closed" \/ link = "down")
    /\ r_pc' = "except_read"
    /\ UNCHANGED <<ser, stop_flag, q, buf, wire, dev_out, link, may_fail, c_pc, got, xvars, lvars,
                   bvars, gvars, dvars, svars, nvars>>

\* run, line 63: a read that was under way when stop() closed the transport
\* ends with no data
reader_read_closed_empty ==
    /\ r_pc = "read" /\ ser = "closed" /\ link = "ok"
    /\ r_pc' = "test"
    /\ UNCHANGED <<ser, stop_flag, q, buf, wire, dev_out, link, may_fail, c_pc, got, xvars, lvars,
                   bvars, gvars, dvars, svars, nvars>>

\* reader_except_read that goes on reading after the report
reader_except_read_continues ==
    /\ r_pc = "except_read"
    /\ q' = Append(q, ErrorMsg("Serial read error"))
    /\ r_pc' = "test"
    /\ UNCHANGED <<ser, stop_flag, buf, wire, dev_out, link, may_fail, c_pc, got, xvars, lvars,
                   bvars, gvars, dvars, svars, nvars>>

\* run, lines 73-74: the read failed: report it and leave the loop
reader_except_read ==
    /\ r_pc = "except_read"
    /\ q' = Append(q, ErrorMsg("Serial read error"))
    /\ r_pc' = "finally"
    /\ UNCHANGED <<ser, stop_flag, buf, wire, dev_out, link, may_fail, c_pc, got, xvars, lvars,
                   bvars, gvars, dvars, svars, nvars>>

\* run, lines 75-80: close the transport if it is open
reader_finally ==
    /\ r_pc = "finally"
    /\ ser' = IF ser = "open" THEN "closed" ELSE ser
    /\ r_pc' = "done"
    /\ UNCHANGED <<stop_flag, q, buf, wire, dev_out, link, may_fail, c_pc, got, xvars, lvars,
                   bvars, gvars, dvars, svars, nvars>>

ReaderNext ==
    \/ reader_open
    \/ reader_except_open
    \/ reader_test
    \/ reader_read_chunk
    \/ reader_read_raises
    \/ reader_read_closed_empty
    \/ reader_except_read
    \/ reader_finally

\* the device sends its next piece
device_emit ==
    /\ dev_out # <<>> /\ link = "ok"
    /\ wire' = wire \o Head(dev_out)
    /\ dev_out' = Tail(dev_out)
    /\ UNCHANGED <<r_pc, ser, stop_flag, q, buf, link, may_fail, c_pc, got, xvars, lvars, bvars, gvars, dvars, svars, nvars>>

\* the transport goes down (the cable is pulled)
link_down ==
    /\ may_fail /\ link = "ok"
    /\ link' = "down"
    /\ UNCHANGED <<r_pc, ser, stop_flag, q, buf, wire, dev_out, may_fail, c_pc, got, xvars, lvars,
                   bvars, gvars, dvars, svars, nvars>>

\* stop, line 83: self._stop.set()
stop_set(from, to) ==
    /\ c_pc = from
    /\ stop_flag' = TRUE
    /\ c_pc' = to
    /\ UNCHANGED <<r_pc, ser, q, buf, wire, dev_out, link, may_fail, got, xvars, lvars, bvars, gvars, dvars, svars, nvars>>

\* stop_close that also empties the queue
stop_close_drops_queue(from, to) ==
    /\ c_pc = from
    /\ ser' = IF ser = "open" THEN "closed" ELSE ser
    /\ q' = <<>>
    /\ c_pc' = to
    /\ UNCHANGED <<r_pc, stop_flag, buf, wire, dev_out, link, may_fail, got, xvars, lvars, bvars, gvars, dvars, svars, nvars>>

\* stop, lines 84-88: close the transport if it is open
stop_close(from, to) ==
    /\ c_pc = from
    /\ ser' = IF ser = "open" THEN "closed" ELSE ser
    /\ c_pc' = to
    /\ UNCHANGED <<r_pc, stop_flag, q, buf, wire, dev_out, link, may_fail, got, xvars, lvars,
                   bvars, gvars, dvars, svars, nvars>>

\* reader.q.get: the consumer takes the next message
queue_get ==
    /\ q # <<>>
    /\ got' = Append(got, Head(q))
    /\ q' = Tail(q)

----------------------------------------------------------------------------
(* A SerialReader and a client that reads its queue and may stop it *)

ByteA == Token("a", "")
ByteB == Token("b", "")

\* what the device sends, byte by byte: "a\r\nb\n", "ab\n\na" and "a\rb\n"
ByteScripts ==
    { <<<<ByteA>>, <<CR>>, <<LF>>, <<ByteB>>, <<LF>>>>,
      <<<<ByteA>>, <<ByteB>>, <<LF>>, <<LF>>, <<ByteA>>>>,
      <<<<ByteA>>, <<CR>>, <<ByteB>>, <<LF>>>> }

InitReader ==
    /\ impl = "puller" /\ lines = <<>> /\ include_only = NoFilter /\ pos = 1
    /\ pc = "done" /\ run = "first" /\ files = NoFiles /\ index_file = <<>>
    /\ written = <<>> /\ conv = ConvLocals0 /\ pull = PullLocals0
    /\ r_pc = "open" /\ ser = "none" /\ stop_flag = FALSE /\ q = <<>> /\ buf = <<>>
    /\ wire = <<>>
    /\ dev_out \in ByteScripts
    /\ link = "ok"
    /\ may_fail \in BOOLEAN
    /\ c_pc = "client"
    /\ got = <<>>
    /\ LiveIdle
    /\ BankIdle
    /\ GuiIdle
    /\ NoOutput
    /\ ScraperIdle
    /\ NormIdle

client_get ==
    /\ c_pc = "client"
    /\ queue_get
    /\ UNCHANGED <<r_pc, ser, stop_flag, buf, wire, dev_out, link, may_fail, c_pc, xvars, lvars,
                   bvars, gvars, dvars, svars, nvars>>

client_stop_set == stop_set("client", "stop_close")

client_stop_close == stop_close("stop_close", "stopped")

\* after stop() the client may still drain the queue
client_get_stopped ==
    /\ c_pc = "stopped"
    /\ queue_get
    /\ UNCHANGED <<r_pc, ser, stop_flag, buf, wire, dev_out, link, may_fail, c_pc, xvars, lvars,
                   bvars, gvars, dvars, svars, nvars>>

\* the client calls stop() a second time
client_stop_again_set == stop_set("stopped", "stop_again_close")

client_stop_again_close == stop_close("stop_again_close", "stopped_again")

NextReader ==
    \/ ReaderNext
    \/ device_emit
    \/ link_down
    \/ client_get
    \/ client_stop_set
    \/ client_stop_close
    \/ client_get_stopped
    \/ client_stop_again_set
    \/ client_stop_again_close

SpecReader == InitReader /\ [][NextReader]_vars

\* every message the reader has put so far, in order
Produced == got \o q

ErrorCount == Cardinality({i \in 1..Len(Produced) : Produced[i].typ = "__ERROR__"})

\* C9: a failure to open or to read makes run put one "__ERROR__" message
\* and leave: the handler puts exactly that message and goes to the end of
\* run, the message is the only error and the last message ever put, and
\* run is past its loop from then on.
C9_OneErrorThenStop ==
    /\ [](/\ ErrorCount <= 1
          /\ ErrorCount = 1 =>
                /\ Produced[Len(Produced)].typ = "__ERROR__"
                /\ r_pc \in {"finally", "done"})
    /\ [][(r_pc \in {"except_open", "except_read"} /\ r_pc' # r_pc) =>
             /\ Len(Produced') = Len(Produced) + 1
             /\ Produced'[Len(Produced')].typ = "__ERROR__"
             /\ r_pc' \in {"finally", "done"}]_vars

\* a read failed mid-stream: a line was put, then the error, and run is over
C9_Witness ==
    /\ link = "down" /\ r_pc = "done" /\ ~stop_flag
    /\ Len(Produced) = 2
    /\ Produced[1].typ = "line"
    /\ Produced[2] = ErrorMsg("Serial read error")

\* C10: when the transport itself never fails, stopping the reader makes it
\* end silently: no "__ERROR__" message is ever put.
C10_StopIsSilent == ~may_fail => ErrorCount = 0

\* a step of the second stop() call
SecondStopStep ==
    /\ c_pc \in {"stopped", "stop_again_close"}
    /\ c_pc' \in {"stop_again_close", "stopped_again"}
    /\ c_pc' # c_pc

\* C11 as stated: a second stop() leaves the stop flag, the transport and
\* the queue exactly as the first call left them.
C11_SecondStopChangesNothing ==
    [][SecondStopStep => UNCHANGED <<stop_flag, ser, q, r_pc, buf>>]_vars

\* C11: a second stop() raises nothing and is a no-op on the stop flag (it
\* stays set), on the queue and on run itself; it leaves the transport as
\* it is, except for a transport that run opened only after the first call
\* (stop() came before the open): that one it closes. After either call the
\* flag is set, and after the second the transport is not open.
C11_SecondStopIsNoOp ==
    /\ [][SecondStopStep =>
             /\ stop_flag /\ UNCHANGED <<stop_flag, q, r_pc, buf, got>>
             /\ ser # "open" => ser' = ser
             /\ ser = "open" => (ser' = "closed" \/ c_pc = "stopped")]_vars
    /\ [](c_pc = "stopped_again" => stop_flag)

\* a second stop() has run after the reader left on a read error: the error
\* is still the one message on the queue, the transport is closed
C11_Witness ==
    /\ c_pc = "stopped_again" /\ r_pc = "done" /\ ser = "closed"
    /\ link = "down"
    /\ q # <<>> /\ q[Len(q)].typ = "__ERROR__"

----------------------------------------------------------------------------
(* Live capture: pull_presets / live_serial_capture_and_save *)

\* queue timeouts that fit into the bank-list wait (5.0 s of 0.25 s waits in
\* the source) and into the preset-list wait (120.0 s or 60.0 s of 0.5 s)
BankWaitTicks == 2
PresetWaitTicks == 2

LbStart == Token("LISTBANKS_START", "")
LbDone  == Token("LISTBANKS_DONE", "")
LpStart == Token("LISTPRESETS_START", "")
LpDone  == Token("LISTPRESETS_DONE", "")
BankHdr == Token("-- Bank", "1")
NameA   == Token("path", "A.json")

\* XXX_RE.match(line): the puller's patterns match a prefix of the line,
\* the converter's the whole line
marker_match(im, line, marker) ==
    IF im = "converter" THEN line = <<marker>>
    ELSE line # <<>> /\ line[1] = marker

\* BANK_HEADER_RE.match(line)
bank_header_match(line) == line # <<>> /\ line[1] = BankHdr

\* candidate.lower().endswith(".json")
ends_with_json(line) == line # <<>> /\ line[Len(line)].key = "path"

RECURSIVE parse_loop(_, _, _, _, _)
\* parse_presetlist_from_lines: the for loop from line i on, keep so far
parse_loop(im, ls, i, in_section, keep) ==
    IF i > Len(ls) THEN keep
    ELSE IF marker_match(im, ls[i], LbStart)
    THEN parse_loop(im, ls, i + 1, TRUE, keep)
    ELSE IF marker_match(im, ls[i], LbDone)
    THEN keep
    ELSE IF in_section /\ ~bank_header_match(ls[i]) /\ ends_with_json(ls[i])
    THEN parse_loop(im, ls, i + 1, in_section,
                    Append(keep, basename(ls[i][Len(ls[i])].val)))
    ELSE parse_loop(im, ls, i + 1, in_section, keep)

\* a Python list and a Python set
ListOf(sq) == [kind |-> "list", items |-> sq]
SetOf(S) == [kind |-> "set", items |-> S]

\* parse_presetlist_from_lines: the puller returns keep, the converter
\* returns set(keep)
parse_presetlist_from_lines(im, ls) ==
    LET keep == parse_loop(im, ls, 1, FALSE, <<>>)
    IN IF im = "converter" THEN SetOf(Range(keep)) ELSE ListOf(keep)

\* set(v) of a list or a set
Names(v) == IF v.kind = "list" THEN Range(v.items) ELSE v.items

\* the orders in which list(S) can hold the members of the set S
Orders(S) ==
    {sq \in [1..Cardinality(S) -> S] : \A i, j \in 1..Cardinality(S) : i # j => sq[i] # sq[j]}

\* f"-- Bank {bank_num}"
BankHeader(n) == Token("-- Bank", ToString(n))

\* converter, lines 463-470: the lines written for names, in banks of 4
bank_chunks(names) ==
    [k \in 1..(Len(names) + (Len(names) + 3) \div 4) |->
        IF k % 5 = 1
        THEN <<BankHeader((k + 4) \div 5)>>
        ELSE <<Token("path", names[k - (k + 4) \div 5])>>]

\* converter, lines 456-471: the contents dist/PresetList_*.txt can get,
\* one for every order list(include_only) can have; the file is not written
\* (it stays as it is) without an active, non-empty filter
export_bank_list(im, act, inc, old) ==
    IF im = "converter" /\ act /\ ~inc.is_none /\ inc.names # {}
    THEN {bank_chunks(o) : o \in Orders(inc.names)}
    ELSE {old}

\* the bytes of a response: every line followed by LF, one piece per line
Pieces(ls) == [i \in 1..Len(ls) |-> ls[i] \o <<LF>>]

\* SerialReader.write_line: the request goes out if the transport is open,
\* else it is dropped; the device answers a request it receives
write_line(request, answer) ==
    IF ser = "open" /\ link = "ok"
    THEN /\ sent' = Append(sent, request)
         /\ dev_out' = dev_out \o Pieces(answer)
    ELSE UNCHANGED <<sent, dev_out>>

\* lines 272-274 (puller) / 378-380 (converter): start the reader thread
live_start ==
    /\ c_pc = "start"
    /\ r_pc' = "open"
    /\ c_pc' = "write_banks"
    /\ UNCHANGED <<ser, stop_flag, q, buf, wire, dev_out, link, may_fail, got, xvars, lvars,
                   bvars, gvars, dvars, svars, nvars>>

\* lines 277-281 / 385-389: request the bank list and enter the wait
live_write_banks ==
    /\ c_pc = "write_banks"
    /\ write_line("LISTBANKS", profile.banks)
    /\ banks_lines' = <<>>
    /\ got_banks' = FALSE
    /\ waited' = 0
    /\ c_pc' = "wait_banks"
    /\ UNCHANGED <<r_pc, ser, stop_flag, q, buf, wire, link, may_fail, got, xvars,
                   active, profile, presets_lines, got_lp, bvars, gvars, dvars, svars, nvars>>

\* lines 282-294 / 390-407: one iteration of the bank-list wait that gets
\* a message
live_banks_get ==
    /\ c_pc = "wait_banks" /\ waited < BankWaitTicks /\ q # <<>>
    /\ queue_get
    /\ LET msg   == Head(q)
           start == marker_match(impl, msg.payload, LbStart)
           done  == marker_match(impl, msg.payload, LbDone)
       IN IF msg.typ = "line"
          THEN /\ got_banks' = (got_banks \/ start)
               /\ banks_lines' = IF got_banks \/ start
                                 THEN Append(banks_lines, msg.payload)
                                 ELSE banks_lines
               /\ c_pc' = IF done THEN "filter" ELSE c_pc
          ELSE /\ UNCHANGED <<got_banks, banks_lines>>
               /\ c_pc' = IF impl = "converter" THEN "filter" ELSE c_pc
    /\ UNCHANGED <<r_pc, ser, stop_flag, buf, wire, dev_out, link, may_fail, xvars,
                   active, profile, sent, presets_lines, got_lp, waited,
                   bvars, gvars, dvars, svars, nvars>>

\* lines 285-286 / 393-394: queue.Empty in the bank-list wait
live_banks_timeout ==
    /\ c_pc = "wait_banks" /\ waited < BankWaitTicks /\ q = <<>>
    /\ waited' = waited + 1
    /\ UNCHANGED <<xvars, rvars, active, profile, sent, banks_lines, got_banks,
                   presets_lines, got_lp, bvars, gvars, dvars, svars, nvars>>

\* live_banks_deadline that goes straight to the extraction
live_banks_deadline_skips ==
    /\ c_pc = "wait_banks" /\ waited >= BankWaitTicks
    /\ c_pc' = "extract"
    /\ UNCHANGED <<r_pc, ser, stop_flag, q, buf, wire, dev_out, link, may_fail, got,
                   xvars, lvars, bvars, gvars, dvars, svars, nvars>>

\* line 282 / 390: the time of the bank-list wait is over
live_banks_deadline ==
    /\ c_pc = "wait_banks" /\ waited >= BankWaitTicks
    /\ c_pc' = "filter"
    /\ UNCHANGED <<r_pc, ser, stop_flag, q, buf, wire, dev_out, link, may_fail, got,
                   xvars, lvars, bvars, gvars, dvars, svars, nvars>>

\* lines 296-303 (puller) / 409-419 (converter): the filter of the run
live_include_only ==
    IF active /\ banks_lines # <<>>
    THEN Filter(Names(parse_presetlist_from_lines(impl, banks_lines)))
    ELSE NoFilter

\* lines 296-310 / 409-428: fix the filter, request the presets, enter the wait
live_write_presets ==
    /\ c_pc = "filter"
    /\ include_only' = live_include_only
    /\ write_line("LISTPRESETS", profile.presets)
    /\ presets_lines' = <<>>
    /\ got_lp' = FALSE
    /\ waited' = 0
    /\ c_pc' = "wait_presets"
    /\ UNCHANGED <<impl, lines, pos, pc, run, files, index_file, written, conv, pull,
                   r_pc, ser, stop_flag, q, buf, wire, link, may_fail, got,
                   active, profile, banks_lines, got_banks, bvars, gvars, dvars, svars, nvars>>

\* lines 311-325 / 430-450: one iteration of the preset-list wait that gets
\* a message
live_presets_get ==
    /\ c_pc = "wait_presets" /\ waited < PresetWaitTicks /\ q # <<>>
    /\ queue_get
    /\ LET msg   == Head(q)
           start == marker_match(impl, msg.payload, LpStart)
           done  == marker_match(impl, msg.payload, LpDone)
       IN IF msg.typ = "line"
          THEN /\ got_lp' = (got_lp \/ start)
               /\ presets_lines' = IF got_lp \/ start
                                   THEN Append(presets_lines, msg.payload)
                                   ELSE presets_lines
               /\ c_pc' = IF done THEN "extract" ELSE c_pc
          ELSE /\ UNCHANGED <<got_lp, presets_lines>>
               /\ c_pc' = IF impl = "converter" THEN "extract" ELSE c_pc
    /\ UNCHANGED <<r_pc, ser, stop_flag, buf, wire, dev_out, link, may_fail, xvars,
                   active, profile, sent, banks_lines, got_banks, waited,
                   bvars, gvars, dvars, svars, nvars>>

\* lines 314-317 / 433-437: queue.Empty in the preset-list wait
live_presets_timeout ==
    /\ c_pc = "wait_presets" /\ waited < PresetWaitTicks /\ q = <<>>
    /\ IF got_lp
       THEN c_pc' = "extract" /\ waited' = waited
       ELSE c_pc' = c_pc /\ waited' = waited + 1
    /\ UNCHANGED <<r_pc, ser, stop_flag, q, buf, wire, dev_out, link, may_fail, got,
                   xvars, active, profile, sent, banks_lines, got_banks,
                   presets_lines, got_lp, bvars, gvars, dvars, svars, nvars>>

\* line 311 / 430: the time of the preset-list wait is over
live_presets_deadline ==
    /\ c_pc = "wait_presets" /\ waited >= PresetWaitTicks
    /\ c_pc' = "extract"
    /\ UNCHANGED <<r_pc, ser, stop_flag, q, buf, wire, dev_out, link, may_fail, got,
                   xvars, lvars, bvars, gvars, dvars, svars, nvars>>

\* line 327 / 453: _extract_lines_to_files(presets_lines, out_dir, include_only),
\* and the converter's export of the bank list, lines 456-471
live_extract ==
    /\ c_pc = "extract"
    /\ lines' = presets_lines
    /\ pos' = Len(presets_lines) + 1
    /\ pc' = "done"
    /\ IF impl = "converter"
       THEN LET r == conv_extract(presets_lines, files, include_only)
            IN /\ conv' = r.loc
               /\ files' = r.files
               /\ written' = r.written
               /\ index_file' = index_file \o r.loc.entries
               /\ index_exists' = (index_exists \/ r.loc.entries # <<>>)
               /\ pull' = pull
       ELSE LET r == pull_extract(presets_lines, files, include_only)
            IN /\ pull' = r.loc
               /\ files' = r.files
               /\ written' = r.written
               /\ UNCHANGED <<index_file, index_exists, conv>>
    /\ dist_file' \in export_bank_list(impl, active, include_only, dist_file)
    /\ c_pc' = "stop_set"
    /\ UNCHANGED <<impl, include_only, run, r_pc, ser, stop_flag, q, buf, wire, dev_out,
                   link, may_fail, got, lvars, p_pc, p_out, gvars, out_dir_exists, svars, nvars>>

\* line 329 / 474: reader.stop()
live_stop_set == stop_set("stop_set", "stop_close")

live_stop_close == stop_close("stop_close", "join")

\* line 330 / 475: reader.join(timeout=1.0) returns and the run goes on to
\* its end: the thread is still alive when the timeout passes, or it has
\* ended and the interpreter's join does not call self._stop (3.13 on);
\* line 332 / 477: print_summary
live_join ==
    /\ c_pc = "join"
    /\ c_pc' = "finished"
    /\ LET d == print_summary(impl, conv.saved,
                              [files |-> files, index_file |-> index_file,
                               out_dir_exists |-> out_dir_exists,
                               index_exists |-> index_exists])
       IN /\ files' = d.files
          /\ index_file' = d.index_file
          /\ out_dir_exists' = d.out_dir_exists
          /\ index_exists' = d.index_exists
    /\ UNCHANGED <<r_pc, ser, stop_flag, q, buf, wire, dev_out, link, may_fail, got,
                   impl, lines, include_only, pos, pc, run, written, conv, pull,
                   lvars, bvars, gvars, svars, nvars>>

\* line 330 / 475: reader.join(timeout=1.0) finds the thread ended and calls
\* self._stop(), which __init__ (line 49 / 272) has replaced by an Event:
\* TypeError leaves the function (CPython 3.8 to 3.12)
live_join_raises ==
    /\ c_pc = "join" /\ r_pc = "done"
    /\ c_pc' = "crashed"
    /\ UNCHANGED <<r_pc, ser, stop_flag, q, buf, wire, dev_out, link, may_fail, got,
                   xvars, lvars, bvars, gvars, dvars, svars, nvars>>

\* what the device answers to LISTBANKS: nothing, an empty list, a list
BankAnswers ==
    { <<>>,
      <<<<LbStart>>, <<LbDone>>>>,
      <<<<LbStart>>, <<BankHdr>>, <<NameA>>, <<LbDone>>>> }

\* what the device answers to LISTPRESETS: a preset with the end marker,
\* a preset without
PresetAnswers ==
    { <<<<LpStart>>, FnA, Js1, <<LpDone>>>>,
      <<<<LpStart>>, FnAB, Js1>> }

Profiles == [banks : BankAnswers, presets : PresetAnswers]

InitLive ==
    /\ impl \in {"converter", "puller"}
    /\ lines = <<>> /\ include_only = NoFilter /\ pos = 1 /\ pc = "loop"
    /\ run = "first" /\ files = NoFiles /\ index_file = <<>> /\ written = <<>>
    /\ conv = ConvLocals0 /\ pull = PullLocals0
    /\ r_pc = "idle" /\ ser = "none" /\ stop_flag = FALSE /\ q = <<>> /\ buf = <<>>
    /\ wire = <<>> /\ dev_out = <<>> /\ link = "ok"
    /\ may_fail \in BOOLEAN
    /\ c_pc = "start" /\ got = <<>>
    /\ active \in BOOLEAN
    /\ profile \in Profiles
    /\ sent = <<>> /\ banks_lines = <<>> /\ got_banks = FALSE
    /\ presets_lines = <<>> /\ got_lp = FALSE /\ waited = 0
    /\ BankIdle
    /\ GuiIdle
    /\ OutputCreated
    /\ ScraperIdle
    /\ NormIdle

NextLive ==
    \/ ReaderNext
    \/ device_emit
    \/ link_down
    \/ live_start
    \/ live_write_banks
    \/ live_banks_get
    \/ live_banks_timeout
    \/ live_banks_deadline
    \/ live_write_presets
    \/ live_presets_get
    \/ live_presets_timeout
    \/ live_presets_deadline
    \/ live_extract
    \/ live_stop_set
    \/ live_stop_close
    \/ live_join
    \/ live_join_raises

SpecLive == InitLive /\ [][NextLive]_vars

\* the steps of the consumer
LiveConsumerNext ==
    \/ live_start
    \/ live_write_banks
    \/ live_banks_get
    \/ live_banks_timeout
    \/ live_banks_deadline
    \/ live_write_presets
    \/ live_presets_get
    \/ live_presets_timeout
    \/ live_presets_deadline
    \/ live_extract
    \/ live_stop_set
    \/ live_stop_close
    \/ live_join
    \/ live_join_raises

\* the presets that a run without a filter saves from the lines received
SavedWithoutFilter ==
    IF impl = "converter"
    THEN conv_extract(presets_lines, NoFiles, NoFilter).files
    ELSE pull_extract(presets_lines, NoFiles, NoFilter).files

\* C5: in a live capture with include_only_active, when the bank list that
\* arrived names no .json file, or none arrived, the filter is off: the run
\* saves every valid preset it received, as a run without a filter does.
C5_EmptyBankListSavesAll ==
    (/\ c_pc \in {"stop_set", "stop_close", "join", "finished"}
     /\ active
     /\ Names(parse_presetlist_from_lines(impl, banks_lines)) = {})
        => files = SavedWithoutFilter

\* the payloads of the line messages among msgs, in order
LinesOf(msgs) ==
    LET ls == SelectSeq(msgs, LAMBDA m : m.typ = "line")
    IN [i \in 1..Len(ls) |-> ls[i].payload]

IsPrefix(a, b) == Len(a) <= Len(b) /\ a = SubSeq(b, 1, Len(a))

RECURSIVE AnswersTo(_)
\* the lines the device sends in answer to the requests it received
AnswersTo(reqs) ==
    IF reqs = <<>> THEN <<>>
    ELSE (IF Head(reqs) = "LISTBANKS" THEN profile.banks ELSE profile.presets)
             \o AnswersTo(Tail(reqs))

\* ls from its first LISTPRESETS_START line on
FromStart(ls) ==
    IF \E i \in 1..Len(ls) : marker_match(impl, ls[i], LpStart)
    THEN SubSeq(ls,
                CHOOSE i \in 1..Len(ls) :
                    /\ marker_match(impl, ls[i], LpStart)
                    /\ \A j \in 1..(i - 1) : ~marker_match(impl, ls[j], LpStart),
                Len(ls))
    ELSE <<>>

\* C12: lines reach the scanner in production order: the lines taken from
\* the queue followed by the lines still on it are a prefix of what the
\* device sent, presets_lines is what was taken from the first
\* LISTPRESETS_START on, and that is what _extract_lines_to_files is given.
C12_FifoDelivery ==
    /\ IsPrefix(LinesOf(got \o q), AnswersTo(sent))
    /\ c_pc \in {"wait_presets", "extract", "stop_set", "stop_close", "join", "finished"}
           => presets_lines = FromStart(LinesOf(got))
    /\ c_pc \in {"stop_set", "stop_close", "join", "finished"}
           => lines = presets_lines

\* a run that took the bank list and then all four lines of the preset list
C12_Witness ==
    /\ c_pc = "finished"
    /\ Len(lines) = 4
    /\ Len(LinesOf(got)) = 8

\* C13: a live capture never blocks for good: whatever the device does,
\* each wait is left after at most its bound of queue timeouts, and the
\* consumer always has a next step until the run has reached its end.
C13_RunReachesItsEnd ==
    /\ c_pc = "wait_banks" => waited <= BankWaitTicks
    /\ c_pc = "wait_presets" => waited <= PresetWaitTicks
    /\ (c_pc # "extract" /\ ~(ENABLED LiveConsumerNext)) => c_pc = "finished"

\* the phase of the run the consumer is in: 1 Connecting, 2 AwaitingBankList,
\* 3 AwaitingPresetList, 4 Draining, 5 Finished
Phase(at) ==
    CASE at \in {"start", "write_banks"}   -> 1
      [] at \in {"wait_banks", "filter"}   -> 2
      [] at = "wait_presets"               -> 3
      [] at = "finished"                   -> 5
      [] OTHER                             -> 4

\* C14: a live capture goes through its phases in order and never back: a
\* step stays in its phase or enters the next one; LISTBANKS is written on
\* the step that enters the bank-list wait, LISTPRESETS on the step that
\* leaves the bank-list phase for the preset-list wait; the extraction runs
\* on a step after the preset-list wait; the run finishes only after stop().
C14_PhasesInOrder ==
    /\ [][/\ Phase(c_pc') \in {Phase(c_pc), Phase(c_pc) + 1}
          /\ sent' # sent =>
                \/ /\ c_pc = "write_banks" /\ c_pc' = "wait_banks"
                   /\ sent' = Append(sent, "LISTBANKS")
                \/ /\ c_pc = "filter" /\ c_pc' = "wait_presets"
                   /\ sent' = Append(sent, "LISTPRESETS")
          /\ pc' # pc => (c_pc = "extract" /\ c_pc' = "stop_set")
          /\ c_pc' = "extract" => c_pc \in {"wait_presets", "extract"}
          /\ c_pc' = "finished" => stop_flag]_vars
    /\ [](pc = "done" => Phase(c_pc) >= 4)

\* a run that sent both requests, extracted, stopped the reader and finished
C14_Witness ==
    /\ c_pc = "finished" /\ pc = "done" /\ stop_flag
    /\ sent = <<"LISTBANKS", "LISTPRESETS">>
    /\ files # NoFiles

\* the consumer has taken an "__ERROR__" message from the queue
ErrorTaken == \E i \in 1..Len(got) : got[i].typ = "__ERROR__"

\* C15: an "__ERROR__" message is fatal to the run: once the consumer has
\* taken one it takes no further message, waits for no further queue
\* timeout and issues no further request.
C15_ErrorIsFatal ==
    [][ErrorTaken =>
          /\ got' = got
          /\ waited' # waited + 1
          /\ ~(c_pc = "filter" /\ c_pc' = "wait_presets")]_vars

\* a queue timeout of the wait at position at: the queue is empty and the
\* consumer moves without taking a message
TimeoutStep(at, bound) ==
    /\ c_pc = at /\ q = <<>> /\ waited < bound
    /\ got' = got
    /\ (waited' # waited \/ c_pc' # c_pc)

\* C16: a queue timeout is read by section state in both waits: once the
\* start marker of the awaited section has been seen it ends the wait,
\* before that the wait goes on.
C16_TimeoutBySectionState ==
    [][/\ TimeoutStep("wait_banks", BankWaitTicks) =>
             IF got_banks THEN c_pc' = "filter"
             ELSE c_pc' = c_pc /\ waited' = waited + 1
       /\ TimeoutStep("wait_presets", PresetWaitTicks) =>
             IF got_lp THEN c_pc' = "extract"
             ELSE c_pc' = c_pc /\ waited' = waited + 1]_vars

----------------------------------------------------------------------------
(* The bank list: parse_presetlist_from_lines and the exported list *)

\* the longest bank-list answer made of arbitrary lines, and the longest
\* well-formed bank list
MaxBankLines == 4
MaxNames == 5

NameOf(k) ==
    CASE k = 1 -> "A.json"
      [] k = 2 -> "B.json"
      [] k = 3 -> "C.json"
      [] k = 4 -> "D.json"
      [] k = 5 -> "E.json"
      [] OTHER -> "F.json"

\* the lines a bank-list answer is made of
BankLines ==
    { <<LbStart>>,                  \* LISTBANKS_START
      <<LbDone>>,                   \* LISTBANKS_DONE
      <<BankHdr>>,                  \* -- Bank 1
      <<NameA>>,                    \* A.json
      <<PathAB>>,                   \* /A_BROKEN.json
      <<Junk>> }                    \* #

\* a well-formed answer listing the first n names, a bank header before
\* every fourth
ListedAnswer(n) ==
    <<<<LbStart>>>> \o
    [k \in 1..(n + (n + 3) \div 4) |->
        IF k % 5 = 1 THEN <<BankHeader((k + 4) \div 5)>>
        ELSE <<Token("path", NameOf(k - (k + 4) \div 5))>>] \o
    <<<<LbDone>>>>

BankInputs ==
    UNION {[1..n -> BankLines] : n \in 0..MaxBankLines}
        \cup {ListedAnswer(n) : n \in 0..MaxNames}

InitBankList ==
    /\ impl \in {"converter", "puller"}
    /\ lines = <<>> /\ include_only = NoFilter /\ pos = 1 /\ pc = "done"
    /\ run = "first" /\ files = NoFiles /\ index_file = <<>> /\ written = <<>>
    /\ conv = ConvLocals0 /\ pull = PullLocals0
    /\ ReaderIdle
    /\ active = TRUE /\ profile = NoDevice /\ sent = <<>>
    /\ banks_lines \in BankInputs
    /\ got_banks = FALSE /\ presets_lines = <<>> /\ got_lp = FALSE /\ waited = 0
    /\ dist_file = <<>> /\ p_pc = "parse" /\ p_out = NoResult
    /\ GuiIdle
    /\ NoOutput
    /\ ScraperIdle
    /\ NormIdle

\* puller lines 297-298 / converter line 411: the bank list is parsed and
\* becomes the filter
bank_parse ==
    /\ p_pc = "parse"
    /\ p_out' = parse_presetlist_from_lines(impl, banks_lines)
    /\ include_only' = Filter(Names(p_out'))
    /\ p_pc' = "export"
    /\ UNCHANGED <<impl, lines, pos, pc, run, files, index_file, written, conv, pull,
                   rvars, lvars, dist_file, gvars, dvars, svars, nvars>>

\* converter lines 456-471: the bank list is exported; the puller has no export
bank_export ==
    /\ p_pc = "export"
    /\ dist_file' \in export_bank_list(impl, active, include_only, dist_file)
    /\ p_pc' = "done"
    /\ UNCHANGED <<xvars, rvars, lvars, p_out, gvars, dvars, svars, nvars>>

NextBankList == bank_parse \/ bank_export

SpecBankList == InitBankList /\ [][NextBankList]_vars

\* position of the first start marker, 0 without one
StartAt(im, ls) ==
    IF \E i \in 1..Len(ls) : marker_match(im, ls[i], LbStart)
    THEN CHOOSE i \in 1..Len(ls) :
            /\ marker_match(im, ls[i], LbStart)
            /\ \A j \in 1..(i - 1) : ~marker_match(im, ls[j], LbStart)
    ELSE 0

\* position of the first end marker after position s, Len(ls) + 1 without one
DoneAfter(im, ls, s) ==
    IF \E i \in (s + 1)..Len(ls) : marker_match(im, ls[i], LbDone)
    THEN CHOOSE i \in (s + 1)..Len(ls) :
            /\ marker_match(im, ls[i], LbDone)
            /\ \A j \in (s + 1)..(i - 1) : ~marker_match(im, ls[j], LbDone)
    ELSE Len(ls) + 1

\* the lines of the section: strictly between the start marker and the first
\* end marker after it
SectionOf(im, ls) ==
    IF StartAt(im, ls) = 0 THEN <<>>
    ELSE SubSeq(ls, StartAt(im, ls) + 1, DoneAfter(im, ls, StartAt(im, ls)) - 1)

\* the basenames of the section's lines that end in .json and are neither a
\* bank header nor a marker, in the order of the lines
ListedNames(im, ls) ==
    LET keep == SelectSeq(SectionOf(im, ls),
                    LAMBDA l : /\ ends_with_json(l)
                               /\ ~bank_header_match(l)
                               /\ ~marker_match(im, l, LbStart))
    IN [i \in 1..Len(keep) |-> PathName(keep[i][Len(keep[i])].val)]

\* C17: parse_presetlist_from_lines returns the ordered sequence of the
\* basenames of exactly the lines strictly between the start marker and the
\* first end marker after it that are not bank headers and end in .json.
C17_ParsedSequence ==
    p_out.kind # "none" =>
        /\ p_out.kind = "list"
        /\ p_out.items = ListedNames(impl, banks_lines)

\* a written bank list has the shape of banks of four: line 1 of every five
\* is the header of the next bank, counted from 1, every other line a filename
BanksOfFour(f) ==
    \A k \in 1..Len(f) :
        IF k % 5 = 1 THEN f[k] = <<BankHeader((k + 4) \div 5)>>
        ELSE f[k] # <<>> /\ f[k][1].key = "path"

\* the filenames of a written bank list, in the order of its lines
FileNames(f) ==
    LET ns == SelectSeq(f, LAMBDA l : l # <<>> /\ l[1].key = "path")
    IN [i \in 1..Len(ns) |-> ns[i][1].val]

\* a sequence without the later occurrences of its members
FirstOccurrences(sq) ==
    LET first == {i \in 1..Len(sq) : \A j \in 1..(i - 1) : sq[j] # sq[i]}
        rank(i) == Cardinality({j \in first : j <= i})
    IN [r \in 1..Cardinality(first) |-> sq[CHOOSE i \in first : rank(i) = r]]

\* C18: the exported bank list names the active filenames in the order in
\* which they were taken from the bank-list section, in consecutive groups of
\* 4, each group under a "-- Bank N" header with N counted from 1.
C18_ExportInExtractionOrder ==
    dist_file # <<>> =>
        /\ BanksOfFour(dist_file)
        /\ FirstOccurrences(FileNames(dist_file))
              = FirstOccurrences(ListedNames(impl, banks_lines))

\* C19: every bank of the exported list has exactly four filename lines, the
\* last bank filled up with its last filename.
C19_LastBankPadded ==
    dist_file # <<>> =>
        /\ BanksOfFour(dist_file)
        /\ Len(dist_file) % 5 = 0
        /\ LET n == Cardinality(Names(p_out))
           IN \A k \in (n + 1)..(4 * (Len(dist_file) \div 5)) :
                 FileNames(dist_file)[k] = FileNames(dist_file)[n]

----------------------------------------------------------------------------
(* The GUI builders: preset_list_builder.py, !gnitron_preset_builder.py,
   preset_picker.py *)

\* the most banks a run starts with or grows to, the most handlers of a run,
\* and the most empty slots at which the random fill is used
MaxBanks == 2
MaxOps == 4
MaxFill == 2

\* the filenames of self.presets
Presets == {"A.json", "B.json"}

\* p["uuid"] of a loaded preset
UuidOf(fn) == IF fn = "A.json" THEN "AB-1" ELSE "UNKNOWN"

Empty == "[Empty]"

\* the keys (b, s) of n banks
SlotKeys(n) == (1..n) \X (1..4)

\* the fields of self the handlers change
GuiState ==
    [bank_count |-> bank_count, slots |-> slots, slot_widgets |-> slot_widgets,
     used_counts |-> used_counts, last_placed_global |-> last_placed_global,
     dialog |-> "none"]

\* a handler has run and left the fields g
GuiReturn(g) ==
    /\ ops < MaxOps
    /\ ops' = ops + 1
    /\ bank_count' = g.bank_count
    /\ slots' = g.slots
    /\ slot_widgets' = g.slot_widgets
    /\ used_counts' = g.used_counts
    /\ last_placed_global' = g.last_placed_global
    /\ dialog' = g.dialog

\* _assign_to_slot
assign_to_slot(g, b, s, fn) ==
    [g EXCEPT !.slots[<<b, s>>] = fn,
              !.slot_widgets[<<b, s>>] = fn,
              !.used_counts[fn] = @ + 1,
              !.last_placed_global = fn]

\* clear_slot that also forgets the preset placed last
clear_slot_forgets_last(g, b, s) ==
    LET fn == g.slots[<<b, s>>]
    IN IF fn # None
       THEN [g EXCEPT !.used_counts[fn] = IF @ > 0 THEN @ - 1 ELSE 0,
                      !.slots[<<b, s>>] = None,
                      !.slot_widgets[<<b, s>>] = Empty,
                      !.last_placed_global = None]
       ELSE g

\* _clear_slot of the label of slot (b, s)
clear_slot(g, b, s) ==
    LET fn == g.slots[<<b, s>>]
    IN IF fn # None
       THEN [g EXCEPT !.used_counts[fn] = IF @ > 0 THEN @ - 1 ELSE 0,
                      !.slots[<<b, s>>] = None,
                      !.slot_widgets[<<b, s>>] = Empty]
       ELSE g

\* _clear_all: the builders clear the slot of every label, the picker every
\* slot; every label is emptied
clear_all(im, g) ==
    [g EXCEPT !.slots = [k \in DOMAIN g.slots |->
                            IF im = "picker" \/ k \in DOMAIN g.slot_widgets
                            THEN None ELSE g.slots[k]],
              !.slot_widgets = [k \in DOMAIN g.slot_widgets |-> Empty],
              !.used_counts = [fn \in DOMAIN g.used_counts |-> 0],
              !.last_placed_global = None]

\* _render_banks: the labels of banks 1..bank_count are built again; the
\* !gnitron builder shows the slot's filename, the picker "[Empty]"
render_banks(im, g) ==
    [g EXCEPT !.slot_widgets =
        [k \in SlotKeys(g.bank_count) |->
            IF im = "gnitron_builder" /\ k \in DOMAIN g.slots /\ g.slots[k] # None
            THEN g.slots[k] ELSE Empty]]

\* add_bank with the new bank put last in every program
add_bank_last(im, g) ==
    LET n == g.bank_count + 1
        grown == [k \in DOMAIN g.slots \cup ({n} \X (1..4)) |->
                    IF k[1] = n THEN None ELSE g.slots[k]]
    IN render_banks(im, [g EXCEPT !.bank_count = n, !.slots = grown])

\* _add_bank: the !gnitron builder puts the new bank first, the picker last
add_bank(im, g) ==
    LET n == g.bank_count + 1
        grown ==
            IF im = "gnitron_builder"
            THEN [k \in {<<kk[1] + 1, kk[2]>> : kk \in DOMAIN g.slots}
                        \cup ({1} \X (1..4)) |->
                    IF k[1] = 1 THEN None ELSE g.slots[<<k[1] - 1, k[2]>>]]
            ELSE [k \in DOMAIN g.slots \cup ({n} \X (1..4)) |->
                    IF k[1] = n THEN None ELSE g.slots[k]]
    IN render_banks(im, [g EXCEPT !.bank_count = n, !.slots = grown])

\* _remove_bank answered with yes
remove_bank(im, g, b) ==
    LET n == g.bank_count
        shrunk ==
            IF im = "gnitron_builder"
            THEN [k \in {kk \in DOMAIN g.slots : kk[1] < b}
                        \cup {<<kk[1] - 1, kk[2]>> : kk \in {x \in DOMAIN g.slots : x[1] > b}} |->
                    IF k[1] < b THEN g.slots[k] ELSE g.slots[<<k[1] + 1, k[2]>>]]
            ELSE [k \in DOMAIN g.slots \ ({n} \X (1..4)) |->
                    IF k[1] >= b THEN g.slots[<<k[1] + 1, k[2]>>] ELSE g.slots[k]]
    IN render_banks(im, [g EXCEPT !.bank_count = n - 1, !.slots = shrunk])

\* (b, s) comes before (c, t) in the loops over banks and slots
Before(k, l) == k[1] < l[1] \/ (k[1] = l[1] /\ k[2] < l[2])

\* the empty slots
Empties(g) == {k \in DOMAIN g.slots : g.slots[k] = None}

\* _on_double_click on filename fn: the first empty slot takes it
on_double_click(im, g, fn) ==
    IF Empties(g) # {}
    THEN LET k == CHOOSE e \in Empties(g) : \A o \in Empties(g) \ {e} : Before(e, o)
         IN assign_to_slot(g, k[1], k[2], fn)
    ELSE IF im = "picker" THEN g ELSE [g EXCEPT !.dialog = "All filled"]

\* the choices random.choice / random.shuffle can make for the empty slots:
\* the picker gives the unused filenames out first, each once
FillChoices(im, g) ==
    LET unused == Presets \ {g.slots[k] : k \in DOMAIN g.slots}
        first == {k \in Empties(g) :
                    Cardinality({o \in Empties(g) : Before(o, k)}) < Cardinality(unused)}
    IN {f \in [Empties(g) -> Presets] :
            im = "picker" =>
                /\ \A k \in first : f[k] \in unused
                /\ \A k, l \in first : k # l => f[k] # f[l]}

\* _random_fill with the choices f: _assign_to_slot for every empty slot
random_fill(im, g, f) ==
    IF Empties(g) = {}
    THEN IF im = "gnitron_builder" THEN g ELSE [g EXCEPT !.dialog = "Nothing to fill"]
    ELSE [g EXCEPT
            !.slots = [k \in DOMAIN g.slots |-> IF k \in Empties(g) THEN f[k] ELSE g.slots[k]],
            !.slot_widgets = [k \in DOMAIN g.slot_widgets |->
                                IF k \in Empties(g) THEN f[k] ELSE g.slot_widgets[k]],
            !.used_counts = [fn \in DOMAIN g.used_counts |->
                                g.used_counts[fn] + Cardinality({k \in Empties(g) : f[k] = fn})],
            !.last_placed_global =
                f[CHOOSE e \in Empties(g) : \A o \in Empties(g) \ {e} : Before(o, e)]]

\* _export: the filled slots of bank b, in slot order
assigned_of(g, b) ==
    SelectSeq([s \in 1..4 |-> g.slots[<<b, s>>]], LAMBDA v : v # None)

\* while len(assigned) < 4: assigned.append(assigned[-1])
pad_to_four(a) ==
    IF a = <<>> THEN a ELSE a \o [i \in 1..(4 - Len(a)) |-> a[Len(a)]]

\* _export: the filenames written for bank b
export_bank(g, b) ==
    IF assigned_of(g, b) = <<>> /\ g.last_placed_global # None
    THEN pad_to_four(<<g.last_placed_global>>)
    ELSE pad_to_four(assigned_of(g, b))

\* _export: the error the builders end with before anything is written,
\* "none" if there is none; the picker has no such exit
export_error(im, g) ==
    IF im = "picker" THEN "none"
    ELSE IF \A k \in DOMAIN g.slots : g.slots[k] = None THEN "Nothing placed"
    ELSE IF \E b \in 1..g.bank_count :
                assigned_of(g, b) = <<>> /\ g.last_placed_global = None
    THEN "No presets"
    ELSE "none"

RECURSIVE export_lines(_, _)
\* _export: lines, from bank b on
export_lines(g, b) ==
    IF b > g.bank_count THEN <<>>
    ELSE <<<<BankHeader(b)>>>>
            \o [i \in 1..Len(export_bank(g, b)) |-> <<Token("path", export_bank(g, b)[i])>>]
            \o export_lines(g, b + 1)

RECURSIVE export_uuids(_, _)
\* _export: uuid_lines, from bank b on
export_uuids(g, b) ==
    IF b > g.bank_count THEN <<>>
    ELSE [i \in 1..Len(export_bank(g, b)) |->
            <<Token("path", export_bank(g, b)[i]), Token("UUID", UuidOf(export_bank(g, b)[i]))>>]
            \o export_uuids(g, b + 1)

\* "\n".join(lines) + "\n" as the lines of the written file
file_of(ls) == IF ls = <<>> THEN << <<>> >> ELSE ls

InitGui ==
    /\ impl = "converter" /\ lines = <<>> /\ include_only = NoFilter /\ pos = 1
    /\ pc = "done" /\ run = "first" /\ files = NoFiles /\ index_file = <<>>
    /\ written = <<>> /\ conv = ConvLocals0 /\ pull = PullLocals0
    /\ ReaderIdle
    /\ LiveIdle
    /\ BankIdle
    /\ NoOutput
    /\ ScraperIdle
    /\ NormIdle
    /\ gui \in {"builder", "gnitron_builder", "picker"}
    /\ bank_count \in 1..MaxBanks
    /\ slots = [k \in SlotKeys(bank_count) |-> None]
    /\ slot_widgets = [k \in SlotKeys(bank_count) |-> Empty]
    /\ used_counts = [fn \in Presets |-> 0]
    /\ last_placed_global = None
    /\ export_file = <<>> /\ uuid_file = <<>> /\ dialog = "none" /\ ops = 0

\* _drop_anywhere over the label of slot (b, s) while dragging fn
gui_drop ==
    \E k \in DOMAIN slot_widgets, fn \in Presets :
        /\ GuiReturn(assign_to_slot(GuiState, k[1], k[2], fn))
        /\ UNCHANGED <<gui, export_file, uuid_file, xvars, rvars, lvars, bvars, dvars, svars, nvars>>

gui_double_click ==
    \E fn \in Presets :
        /\ GuiReturn(on_double_click(gui, GuiState, fn))
        /\ UNCHANGED <<gui, export_file, uuid_file, xvars, rvars, lvars, bvars, dvars, svars, nvars>>

gui_random_fill ==
    /\ Cardinality(Empties(GuiState)) <= MaxFill
    /\ \E f \in FillChoices(gui, GuiState) :
          GuiReturn(random_fill(gui, GuiState, f))
    /\ UNCHANGED <<gui, export_file, uuid_file, xvars, rvars, lvars, bvars, dvars, svars, nvars>>

\* right click on the label of slot (b, s)
gui_clear_slot ==
    \E k \in DOMAIN slot_widgets :
        /\ GuiReturn(clear_slot(GuiState, k[1], k[2]))
        /\ UNCHANGED <<gui, export_file, uuid_file, xvars, rvars, lvars, bvars, dvars, svars, nvars>>

gui_clear_all ==
    /\ GuiReturn(clear_all(gui, GuiState))
    /\ UNCHANGED <<gui, export_file, uuid_file, xvars, rvars, lvars, bvars, dvars, svars, nvars>>

gui_add_bank ==
    /\ gui \in {"gnitron_builder", "picker"}
    /\ bank_count < MaxBanks
    /\ GuiReturn(add_bank(gui, GuiState))
    /\ UNCHANGED <<gui, export_file, uuid_file, xvars, rvars, lvars, bvars, dvars, svars, nvars>>

\* the Remove button of bank b, the question answered with yes or no
gui_remove_bank ==
    /\ gui \in {"gnitron_builder", "picker"}
    /\ \E b \in 1..bank_count, yes \in BOOLEAN :
          GuiReturn(IF yes THEN remove_bank(gui, GuiState, b) ELSE GuiState)
    /\ UNCHANGED <<gui, export_file, uuid_file, xvars, rvars, lvars, bvars, dvars, svars, nvars>>

gui_export ==
    /\ IF export_error(gui, GuiState) # "none"
       THEN /\ GuiReturn([GuiState EXCEPT !.dialog = export_error(gui, GuiState)])
            /\ UNCHANGED <<export_file, uuid_file>>
       ELSE /\ GuiReturn([GuiState EXCEPT !.dialog = "Export Complete"])
            /\ export_file' = file_of(export_lines(GuiState, 1))
            /\ uuid_file' = IF gui = "builder" THEN uuid_file
                            ELSE file_of(export_uuids(GuiState, 1))
    /\ UNCHANGED <<gui, xvars, rvars, lvars, bvars, dvars, svars, nvars>>

NextGui ==
    \/ gui_drop
    \/ gui_double_click
    \/ gui_random_fill
    \/ gui_clear_slot
    \/ gui_clear_all
    \/ gui_add_bank
    \/ gui_remove_bank
    \/ gui_export

SpecGui == InitGui /\ [][NextGui]_vars

\* the last handler was _export
ExportStep ==
    /\ ops' = ops + 1
    /\ dialog' \in {"Export Complete", "Nothing placed", "No presets"}

\* the four filenames due to bank b: its filled slots in slot order, then its
\* last filename again; the filename placed last of all if the bank is empty
FourOf(b) ==
    LET filled == {s \in 1..4 : slots[<<b, s>>] # None}
        nth(i) == CHOOSE s \in filled : Cardinality({t \in filled : t <= s}) = i
    IN [i \in 1..4 |->
            IF filled = {} THEN last_placed_global
            ELSE IF i <= Cardinality(filled) THEN slots[<<b, nth(i)>>]
            ELSE slots[<<b, nth(Cardinality(filled))>>]]

\* every bank has a filename to be padded with
PaddingAvailable ==
    \A b \in 1..bank_count :
        (\E s \in 1..4 : slots[<<b, s>>] # None) \/ last_placed_global # None

\* the file due: for every bank its header and its four filenames
FileDue ==
    file_of([k \in 1..(5 * bank_count) |->
                IF k % 5 = 1 THEN <<BankHeader((k + 4) \div 5)>>
                ELSE <<Token("path", FourOf((k + 4) \div 5)[(k - 1) % 5])>>])

\* C20: an export writes, for every bank 1..bank_count, the header and
\* exactly four filenames (the filled slots in slot order, padded with the
\* bank's last filename, or with the filename placed last of all when the
\* bank is empty); without a filename to pad with the export fails and no
\* file is written. (An export with no slot filled may also fail.)
C20_ExportFourPerBank ==
    [][ExportStep =>
          \/ /\ PaddingAvailable
             /\ dialog' = "Export Complete"
             /\ export_file' = FileDue
          \/ /\ ~PaddingAvailable \/ \A k \in DOMAIN slots : slots[k] = None
             /\ dialog' # "Export Complete"
             /\ UNCHANGED <<export_file, uuid_file>>]_vars

----------------------------------------------------------------------------
(* The index file of a conversion *)

\* the index line of a capture: "<filename> <IDENTIFIER>"
IndexLine(n, raw_json) ==
    [name |-> n, uuid |-> Upper(DictGet(JsonLoads(raw_json), "UUID", "UNKNOWN"))]

\* the step returns from the converter's _extract_lines_to_files
ConvReturns == impl = "converter" /\ pc = "loop" /\ pc' = "done"

\* C21: the converter appends exactly one index line "<filename>
\* <IDENTIFIER>" per preset it saves, in the order of saving: a step that
\* saves adds the line of its capture to the entries, a step that does not
\* save (duplicate, filtered, orphan, broken, or no capture) adds none, the
\* return appends the entries to the index file behind the lines that are
\* there, which no step of the extraction changes, and the number appended
\* is saved.
C21_IndexLinePerSaved ==
    [][ /\ (impl = "converter" /\ pc = "loop" /\ pc' = "loop") =>
              /\ index_file' = index_file
              /\ IF conv'.saved = conv.saved + 1
                 THEN conv'.entries =
                          Append(conv.entries,
                                 IndexLine(conv.current_filename, json_group(lines[pos])))
                 ELSE conv'.saved = conv.saved /\ conv'.entries = conv.entries
        /\ ConvReturns =>
              /\ index_file' = index_file \o conv.entries
              /\ Len(index_file') = Len(index_file) + conv.saved
              /\ [i \in 1..Len(conv.entries) |-> conv.entries[i].name] = written
        /\ (impl = "converter" /\ pc # "loop" /\ pc' = "loop") =>
              index_file' = index_file
      ]_vars

\* a second conversion of the same lines is done: its one valid capture was a
\* duplicate and its other capture broken, and the index holds the one line
\* of the first conversion
C21_Witness ==
    /\ impl = "converter" /\ pc = "done" /\ run = "second"
    /\ conv.skipped_dupe = 1 /\ conv.broken = 1 /\ conv.saved = 0
    /\ index_file = <<[name |-> "A.json", uuid |-> "AB-1"]>>

\* the identifier a preset file records: its UUID field, None without one
RecordedId(f) == DictGet(f.data, "UUID", None)

\* C22: the identifier recorded for a saved preset is the upper-cased UUID
\* of its payload, "UNKNOWN" without one, in the written preset file as in
\* its index line: every preset file of the output directory records an
\* identifier, in upper case, and an index line of the file carries the
\* same identifier.
C22_IdentifierUpperOrUnknown ==
    \A n \in DOMAIN files :
        files[n].kind = "preset" =>
            /\ RecordedId(files[n]) # None
            /\ RecordedId(files[n]) = Upper(RecordedId(files[n]))
            /\ \A i \in 1..Len(conv.entries) :
                   conv.entries[i].name = n => conv.entries[i].uuid = RecordedId(files[n])

----------------------------------------------------------------------------
(* Orphans *)

\* the line the loop is about to process
AtLine == pc = "loop" /\ pos <= Len(lines)

\* the converter reads an announcement while the announcement before it
\* has had no payload
ConvOrphanFilename ==
    impl = "converter" /\ AtLine /\ filename_match(lines[pos])
    /\ conv.current_filename # NoName

\* the converter reads a payload and no filename is set
ConvOrphanPayload ==
    impl = "converter" /\ AtLine /\ ~filename_match(lines[pos])
    /\ Find(lines[pos], JS) # 0 /\ json_match(lines[pos])
    /\ conv.current_filename = NoName

\* the puller reads an announcement while the announcement before it has
\* had no payload
PullOrphanFilename ==
    impl = "puller" /\ AtLine /\ lines[pos][1] = RPF
    /\ pull.filename # NoName /\ pull.buffer = <<>>

\* the puller reads an announcement and the payload before it had no filename
PullOrphanPayload ==
    impl = "puller" /\ AtLine /\ lines[pos][1] = RPF
    /\ pull.filename = NoName /\ pull.buffer # <<>>

\* C24: an orphan is counted: a payload that arrives with no filename set,
\* and an announcement replaced by the next announcement before any payload
\* arrived, each add one to skippedNoFilename (the puller's skipped) and
\* write nothing, and the loop goes on to the next line.
C24_OrphansCounted ==
    [][ /\ (ConvOrphanFilename \/ ConvOrphanPayload) =>
              /\ conv'.skipped_no_filename = conv.skipped_no_filename + 1
              /\ files' = files /\ pos' = pos + 1
        /\ (PullOrphanFilename \/ PullOrphanPayload) =>
              /\ pull'.skipped = pull.skipped + 1
              /\ files' = files /\ pos' = pos + 1
      ]_vars

----------------------------------------------------------------------------
(* The filter and the malformed payload; noise *)

\* C29: a capture whose filename is not in the active filter is classified
\* like any other: when its payload is malformed the converter counts it
\* broken and not skipped_not_in_list, so that the broken count of a run is
\* the broken count of the run over the same lines without filter.
C29_FilteredMalformedIsBroken ==
    [][ /\ (/\ ConvArrival(conv.current_filename)
            /\ conv.current_filename # NoName
            /\ ~FilterAllows(conv.current_filename)
            /\ ~ConvPayloadValid) =>
              /\ conv'.broken = conv.broken + 1
              /\ conv'.skipped_not_in_list = conv.skipped_not_in_list
        /\ (ConvReturns /\ run = "first") =>
              conv'.broken = conv_extract(lines, NoFiles, NoFilter).loc.broken
      ]_vars

\* a line that matches no marker: no announcement, no payload marker, no
\* "{" at its start, no section marker
Noise == <<Junk>>

\* lines without the line at i
WithoutLine(ls, i) == SubSeq(ls, 1, i - 1) \o SubSeq(ls, i + 1, Len(ls))

\* the counters of the puller's locals
PullStats(p) ==
    [scanned |-> p.scanned, saved |-> p.saved, skipped |-> p.skipped,
     duplicate |-> p.duplicate]

\* C30: a noise line changes nothing: the run over an input with a noise
\* line ends with the statistics and the files of the run over the input
\* without that line.
C30_NoiseTolerant ==
    (pc = "done" /\ run = "first") =>
        \A i \in 1..Len(lines) :
            lines[i] = Noise =>
                /\ impl = "converter" =>
                      LET r == conv_extract(WithoutLine(lines, i), NoFiles, include_only)
                      IN files = r.files /\ conv = r.loc
                /\ impl = "puller" =>
                      LET r == pull_extract(WithoutLine(lines, i), NoFiles, include_only)
                      IN files = r.files /\ PullStats(pull) = PullStats(r.loc)

----------------------------------------------------------------------------
(* _normalize_for_ignitron on its own *)

\* the most members a parsed payload has here
MaxMembers == 3

\* the members a payload is made of
Members ==
    { Token("UUID", "ab-1"), Token("UUID", "CD-2"), Token("PresetNumber", "3"),
      Token("Version", "0.5"), Token("Description", ""), Token("Description", "d"),
      Token("Icon", "i.png"), Token("BPM", "90"), Token("Name", "x") }

\* the parsed payloads: members in any order, no key twice
Payloads ==
    { d \in UNION {[1..n -> Members] : n \in 0..MaxMembers} :
        \A i, j \in 1..Len(d) : d[i].key = d[j].key => i = j }

InitNormalize ==
    /\ norm_in \in Payloads
    /\ norm_out = NotReturned
    /\ impl = "puller" /\ lines = <<>> /\ include_only = NoFilter
    /\ pos = 1 /\ pc = "done" /\ run = "first"
    /\ files = NoFiles /\ index_file = <<>> /\ written = <<>>
    /\ conv = ConvLocals0 /\ pull = PullLocals0
    /\ ReaderIdle
    /\ LiveIdle
    /\ BankIdle
    /\ GuiIdle
    /\ NoOutput
    /\ ScraperIdle

\* puller, lines 166-179: the call returns
norm_call ==
    /\ ~norm_out.returned
    /\ norm_out' = [returned |-> TRUE, preset |-> normalize_for_ignitron(norm_in)]
    /\ UNCHANGED <<xvars, rvars, lvars, bvars, gvars, dvars, svars, norm_in>>

NextNormalize == norm_call

SpecNormalize == InitNormalize /\ [][NextNormalize]_vars

\* the fields the normalizer backfills, and what with
Backfilled == {"Version", "Description", "Icon", "BPM"}

DefaultOf(k) ==
    CASE k = "Version"     -> "0.7"
      [] k = "Description" -> ""
      [] k = "Icon"        -> "icon.png"
      [] k = "BPM"         -> "120.0"

\* C23: _normalize_for_ignitron gives Version, Description, Icon and BPM
\* their default when the field is missing and keeps the value of a field
\* that is present; it removes PresetNumber, upper-cases a present UUID, adds
\* no other field, and leaves every other field as it was, the fields of the
\* payload in their order.
C23_BackfillOnlyMissing ==
    norm_out.returned =>
        LET i == norm_in
            o == norm_out.preset
        IN /\ \A k \in Backfilled :
                  DictGet(o, k, None) = IF HasKey(i, k) THEN DictGet(i, k, None)
                                                         ELSE DefaultOf(k)
           /\ ~HasKey(o, "PresetNumber")
           /\ HasKey(o, "UUID") = HasKey(i, "UUID")
           /\ HasKey(i, "UUID") => DictGet(o, "UUID", None) = Upper(DictGet(i, "UUID", None))
           /\ \A k \in FieldKeys \ (Backfilled \cup {"PresetNumber", "UUID"}) :
                  /\ HasKey(o, k) = HasKey(i, k)
                  /\ DictGet(o, k, None) = DictGet(i, k, None)
           /\ \A m \in 1..Len(o) : o[m].key \in FieldKeys
           /\ \A m, n \in 1..Len(o) : o[m].key = o[n].key => m = n
           /\ LET kept == SelectSeq(i, LAMBDA t : t.key # "PresetNumber")
              IN \A m \in 1..Len(kept) : o[m].key = kept[m].key

\* the call has returned for a payload with a lower-case UUID, a
\* PresetNumber and a Version of its own
C23_Witness ==
    /\ norm_out.returned
    /\ DictGet(norm_in, "UUID", None) = "ab-1"
    /\ HasKey(norm_in, "PresetNumber")
    /\ DictGet(norm_in, "Version", None) = "0.5"
    /\ DictGet(norm_out.preset, "Version", None) = "0.5"
    /\ DictGet(norm_out.preset, "BPM", None) = "120.0"

----------------------------------------------------------------------------
(* The end of a run that saved nothing *)

\* the saved count of the run
SavedCount == IF impl = "converter" THEN conv.saved ELSE pull.saved

\* C26: a live capture that has ended with saved = 0 leaves neither its
\* output directory nor its index file behind.
C26_EmptyRunLeavesNothing ==
    (c_pc = "finished" /\ SavedCount = 0) => ~out_dir_exists /\ ~index_exists

----------------------------------------------------------------------------
(* The Spark app scraper: ignitron_spark_preset_puller.py *)

\* the scraper's second marker
RFA == Token("received from app:", "")

\* normalize_number, lines 10-15: a float that is an integer becomes an int,
\* any other float is rounded to 4 places, everything else is kept
normalize_number(val) ==
    CASE val = "120.0"   -> "120"
      [] val = "0.12345" -> "0.1235"
      [] OTHER           -> val

\* normalize_json, lines 17-23, of a parsed object
normalize_json(obj) ==
    [i \in 1..Len(obj) |-> Token(obj[i].key, normalize_number(obj[i].val))]

\* lines 72-74: re.sub(r'\W+', '', name) or "preset"
safe_name(name) ==
    CASE name = "a b" -> "ab"
      [] name = ""    -> "preset"
      [] OTHER        -> name

\* line 51: line.startswith("received from app:") or
\* line.startswith("JSON STRING:")
starts_capture(line) == line # <<>> /\ line[1] \in {RFA, JS}

\* line 58: line.strip().endswith("}")
ends_object(line) == line # <<>> /\ line[Len(line)] = RB

\* a state of the scraper: its locals and the session folder
SparkState(loc, fs) == [loc |-> loc, files |-> fs]

\* lines 60-84: json.loads of the buffer, the test on the last UUID, the
\* write; a failed parse is caught and printed
scraper_parse(y) ==
    LET k == [y.loc EXCEPT !.capturing = FALSE, !.parses = @ + 1]
    IN IF ~JsonValid(k.buffer)
       THEN SparkState(k, y.files)
       ELSE LET raw_preset == JsonLoads(k.buffer)
                uuid       == DictGet(raw_preset, "UUID", None)
                preset     == normalize_json(raw_preset)
                fname      == safe_name(DictGet(preset, "Name", "preset")) \o ".json"
            IN IF uuid = k.last_uuid
               THEN SparkState(k, y.files)
               ELSE SparkState([k EXCEPT !.last_uuid = uuid],
                               WriteFile(y.files, fname, PresetFile(preset)))

\* scraper_line with a failed parse leaving the capture open
scraper_line_stuck(y, line) ==
    IF line = <<>> THEN y
    ELSE IF starts_capture(line)
    THEN SparkState([y.loc EXCEPT !.buffer = <<>>, !.capturing = TRUE], y.files)
    ELSE IF y.loc.capturing
    THEN LET z == SparkState([y.loc EXCEPT !.buffer = @ \o line], y.files)
         IN IF ends_object(line)
            THEN IF JsonValid(z.loc.buffer)
                 THEN scraper_parse(z)
                 ELSE SparkState([z.loc EXCEPT !.parses = @ + 1], z.files)
            ELSE z
    ELSE y

\* lines 44-84: the body of the loop for one line read
scraper_line(y, line) ==
    IF line = <<>> THEN y
    ELSE IF starts_capture(line)
    THEN SparkState([y.loc EXCEPT !.buffer = <<>>, !.capturing = TRUE], y.files)
    ELSE IF y.loc.capturing
    THEN LET z == SparkState([y.loc EXCEPT !.buffer = @ \o line], y.files)
         IN IF ends_object(line) THEN scraper_parse(z) ELSE z
    ELSE y

\* the most lines the scraper reads
MaxSparkLen == 4

\* the lines the scraper reads
SparkLines ==
    { <<JS>>,                            \* JSON STRING:
      <<RFA>>,                           \* received from app:
      <<JS>> \o Valid1,                  \* JSON STRING: {"UUID": "ab-1"}
      <<LB>>,                            \* {
      <<Token("UUID", "ab-1")>>,         \* "UUID": "ab-1"
      <<RB>>,                            \* }
      <<LB, Token("UUID", "cd-2"), Token("Name", "a b"), Token("BPM", "120.0"), RB>>,
      Valid2,                            \* {"Name": "x"}
      <<LB, Junk, RB>>,                  \* {#}
      <<>>                               \* an empty line, or the read timeout
    }

SparkInputs == UNION {[1..n -> SparkLines] : n \in 0..MaxSparkLen}

\* main, lines 28-40: connected, the session folder made, the locals set
InitScraper ==
    /\ impl = "scraper"
    /\ lines \in SparkInputs
    /\ include_only = NoFilter
    /\ pos = 1 /\ pc = "loop" /\ run = "first"
    /\ files = NoFiles /\ index_file = <<>> /\ written = <<>>
    /\ conv = ConvLocals0 /\ pull = PullLocals0
    /\ spark = SparkLocals0
    /\ ReaderIdle
    /\ LiveIdle
    /\ BankIdle
    /\ GuiIdle
    /\ OutputCreated
    /\ NormIdle

\* lines 42-84: one iteration of while True
scraper_read ==
    /\ impl = "scraper" /\ pc = "loop" /\ pos <= Len(lines)
    /\ LET r == scraper_line(SparkState(spark, files), lines[pos])
       IN spark' = r.loc /\ files' = r.files
    /\ pos' = pos + 1
    /\ UNCHANGED <<impl, lines, include_only, pc, run, index_file, written, conv, pull,
                   rvars, lvars, bvars, gvars, dvars, nvars>>

\* lines 86-89: KeyboardInterrupt closes the port and leaves the loop
scraper_interrupt ==
    /\ impl = "scraper" /\ pc = "loop"
    /\ pc' = "done"
    /\ UNCHANGED <<impl, lines, include_only, pos, run, files, index_file, written, conv,
                   pull, rvars, lvars, bvars, gvars, dvars, svars, nvars>>

NextScraper == scraper_read \/ scraper_interrupt

SpecScraper == InitScraper /\ [][NextScraper]_vars

\* the scraper reads the line at pos
SparkReads == impl = "scraper" /\ pc = "loop" /\ pos <= Len(lines) /\ pos' = pos + 1

\* the JSON text on a line with the payload marker: from its first "{" on
JsonOnLine(line) ==
    IF Find(line, LB) = 0 THEN <<>> ELSE SubSeq(line, Find(line, LB), Len(line))

\* C27: a line with the JSON payload marker starts a capture whose buffer
\* holds the JSON text of that line, and a payload that is complete on the
\* marker line is handed to parsing.
C27_MarkerLineSeedsBuffer ==
    [][ (SparkReads /\ Find(lines[pos], JS) # 0) =>
            /\ spark'.buffer = JsonOnLine(lines[pos])
            /\ IF ends_object(lines[pos])
               THEN spark'.parses = spark.parses + 1
               ELSE spark'.capturing
      ]_vars

----------------------------------------------------------------------------
(* _extract_lines_to_files on a disk that may fail *)

\* the most lines of an input here
MaxDiskLen == 3

DiskInputs == UNION {[1..n -> LogLines] : n \in 0..MaxDiskLen}

\* converter, lines 157-179, when open() of the preset file succeeds
\* (write_ok) or raises, and open() of the stub succeeds (stub_ok) or raises:
\* an exception of the try is caught by except Exception, which counts the
\* capture broken and tries the stub inside a try of its own
conv_save_disk(x, raw_json, inc, write_ok, stub_ok) ==
    LET c    == x.loc
        name == c.current_filename
        stub == IF stub_ok
                THEN WriteFile(x.files, PathStem(name) \o "_BROKEN.json", RawFile(raw_json))
                ELSE x.files
    IN IF JsonValid(raw_json) /\ (name \in DOMAIN x.files \/ write_ok)
       THEN conv_save(x, raw_json, inc)
       ELSE XState([c EXCEPT !.broken = @ + 1, !.current_filename = NoName],
                   stub, x.written)

\* the line reaches the try of lines 157-179
conv_reaches_save(x, line, inc) ==
    /\ ~filename_match(line)
    /\ Find(line, JS) # 0 /\ json_match(line)
    /\ x.loc.current_filename # NoName
    /\ inc.is_none \/ x.loc.current_filename \in inc.names

\* converter, lines 133-179, on such a disk
conv_line_disk(x, line, inc, write_ok, stub_ok) ==
    IF conv_reaches_save(x, line, inc)
    THEN conv_save_disk(XState([x.loc EXCEPT !.scanned = @ + 1], x.files, x.written),
                        json_group(line), inc, write_ok, stub_ok)
    ELSE conv_line(x, line, inc)

\* puller, lines 181-199, when open() of the preset file may raise: the
\* except of the function returns False
write_preset_file_disk(filename, buffer, fs, inc, write_ok) ==
    IF write_ok
    THEN write_preset_file(filename, buffer, fs, inc)
    ELSE [ok |-> FALSE, files |-> fs]

\* puller, lines 213-224 and 244-255, on such a disk
pull_flush_disk(x, inc, write_ok) ==
    LET p == x.loc
    IN IF p.filename # NoName /\ p.buffer # <<>>
       THEN LET base == basename(p.filename)
            IN IF base \in p.seen_files
               THEN XState([p EXCEPT !.scanned = @ + 1, !.duplicate = @ + 1],
                           x.files, x.written)
               ELSE LET r == write_preset_file_disk(p.filename, p.buffer, x.files, inc,
                                                    write_ok)
                    IN XState([p EXCEPT !.scanned = @ + 1,
                                        !.saved = IF r.ok THEN @ + 1 ELSE @,
                                        !.skipped = IF r.ok THEN @ ELSE @ + 1,
                                        !.seen_files = @ \cup {base}],
                              r.files,
                              IF r.ok THEN Append(x.written, base) ELSE x.written)
       ELSE x

\* puller, lines 209-242, on such a disk
pull_line_disk(x, line, inc, write_ok) ==
    IF line # <<>> /\ line[1] = RPF
    THEN LET y == pull_flush_disk(x, inc, write_ok)
         IN XState([y.loc EXCEPT !.filename = IF Len(line) >= 2 THEN line[2].val ELSE NoName,
                                 !.buffer = <<>>,
                                 !.collecting = FALSE],
                   y.files, y.written)
    ELSE pull_line(x, line, inc)

InitDisk ==
    /\ impl \in {"converter", "puller"}
    /\ lines \in DiskInputs
    /\ include_only \in Filters
    /\ pos = 1 /\ pc = "loop" /\ run = "first"
    /\ files = NoFiles /\ index_file = <<>> /\ written = <<>>
    /\ conv = ConvLocals0 /\ pull = PullLocals0
    /\ ReaderIdle
    /\ LiveIdle
    /\ BankIdle
    /\ GuiIdle
    /\ OutputCreated
    /\ ScraperIdle
    /\ NormIdle

\* converter, lines 133-179: one iteration of the for loop
DiskConvLine ==
    /\ impl = "converter" /\ pc = "loop" /\ pos <= Len(lines)
    /\ \E write_ok, stub_ok \in BOOLEAN :
          LET r == conv_line_disk(XState(conv, files, written), lines[pos], include_only,
                                  write_ok, stub_ok)
          IN /\ conv' = r.loc
             /\ files' = r.files
             /\ written' = r.written
    /\ pos' = pos + 1
    /\ UNCHANGED <<impl, lines, include_only, pc, run, index_file, pull, rvars, lvars,
                   bvars, gvars, dvars, svars, nvars>>

\* converter, lines 181-192: the entries are appended to the index and the
\* statistics returned
DiskConvReturn ==
    /\ impl = "converter" /\ pc = "loop" /\ pos > Len(lines)
    /\ index_file' = index_file \o conv.entries
    /\ index_exists' = (index_exists \/ conv.entries # <<>>)
    /\ pc' = "done"
    /\ UNCHANGED <<impl, lines, include_only, pos, run, files, written, conv, pull, rvars,
                   lvars, bvars, gvars, out_dir_exists, svars, nvars>>

\* converter, lines 181-184: open() of the index raises; the with statement
\* stands in no try, the exception leaves _extract_lines_to_files and the
\* return of lines 186-192 is not reached
DiskConvIndexRaises ==
    /\ impl = "converter" /\ pc = "loop" /\ pos > Len(lines)
    /\ conv.entries # <<>>
    /\ pc' = "raised"
    /\ UNCHANGED <<impl, lines, include_only, pos, run, files, index_file, written, conv,
                   pull, rvars, lvars, bvars, gvars, dvars, svars, nvars>>

\* puller, lines 209-242: one iteration of the for loop
DiskPullLine ==
    /\ impl = "puller" /\ pc = "loop" /\ pos <= Len(lines)
    /\ \E write_ok \in BOOLEAN :
          LET r == pull_line_disk(XState(pull, files, written), lines[pos], include_only,
                                  write_ok)
          IN /\ pull' = r.loc
             /\ files' = r.files
             /\ written' = r.written
    /\ pos' = pos + 1
    /\ UNCHANGED <<impl, lines, include_only, pc, run, index_file, conv, rvars, lvars,
                   bvars, gvars, dvars, svars, nvars>>

\* puller, lines 244-257: classify the last capture and return
DiskPullReturn ==
    /\ impl = "puller" /\ pc = "loop" /\ pos > Len(lines)
    /\ \E write_ok \in BOOLEAN :
          LET r == pull_flush_disk(XState(pull, files, written), include_only, write_ok)
          IN /\ pull' = r.loc
             /\ files' = r.files
             /\ written' = r.written
    /\ pc' = "done"
    /\ UNCHANGED <<impl, lines, include_only, pos, run, index_file, conv, rvars, lvars,
                   bvars, gvars, dvars, svars, nvars>>

NextDisk ==
    DiskConvLine \/ DiskConvReturn \/ DiskConvIndexRaises \/ DiskPullLine \/ DiskPullReturn

SpecDisk == InitDisk /\ [][NextDisk]_vars

\* C25: a filesystem error never terminates the extraction: whatever write
\* fails (a preset file, a stub, the index), every line is processed, no
\* exception leaves _extract_lines_to_files and the statistics are returned.
C25_DiskErrorIsolated ==
    /\ pc # "raised"
    /\ pc = "done" => pos = Len(lines) + 1

----------------------------------------------------------------------------
(* The lines SerialReader.run emits *)

RECURSIVE LinesIn(_, _)
\* the line messages of bytes that follow the pending bytes cur: one per
\* line feed, carrying the bytes since the line feed before it without
\* their trailing carriage return
LinesIn(bytes, cur) ==
    IF bytes = <<>> THEN <<>>
    ELSE IF Head(bytes) = LF
    THEN <<LineMsg(RStripCR(cur))>> \o LinesIn(Tail(bytes), <<>>)
    ELSE LinesIn(Tail(bytes), Append(cur, Head(bytes)))

\* run reads the chunk that has arrived
ReadsChunk == r_pc = "read" /\ r_pc' = "test" /\ wire # <<>> /\ wire' = <<>>

\* C31: run emits one line message per line feed received, carrying exactly
\* the bytes received since the line feed before it with only a trailing
\* carriage return stripped: a read puts the lines of the pending bytes
\* followed by its chunk, and nothing for the bytes after the last line feed.
C31_LinePerLineFeed ==
    [][ReadsChunk => q' = q \o LinesIn(wire, buf)]_vars

----------------------------------------------------------------------------
(* Banks added and removed *)

----------------------------------------------------------------------------
(* Usage, the last placed preset, and the labels *)

\* the slots that hold fn
SlotsOf(fn) == {k \in DOMAIN slots : slots[k] = fn}

\* C33: a preset is marked used (used_counts > 0, shown green) if and only
\* if it occupies at least one slot.
C33_UsedIffPlaced ==
    gui # "none" => \A fn \in Presets : used_counts[fn] > 0 <=> SlotsOf(fn) # {}

\* a slot is filled
SomeFilled == \E k \in DOMAIN slots : slots[k] # None

\* C39: whenever at least one slot is filled last_placed_global is set, so
\* an export that passes the check for a placed preset never ends in the
\* failure for want of a preset to fill with: it writes its file.
C39_PlacedImpliesLast ==
    /\ []((gui # "none" /\ SomeFilled) => last_placed_global # None)
    /\ [][(ExportStep /\ SomeFilled) =>
             /\ dialog' = "Export Complete"
             /\ export_file' = FileDue]_vars

\* the bank builder has exported with an empty first bank and a preset in
\* the second: the empty bank was filled with the preset placed last
C39_Witness ==
    /\ gui = "gnitron_builder" /\ bank_count = 2
    /\ dialog = "Export Complete"
    /\ \A t \in 1..4 : slots[<<1, t>>] = None
    /\ slots[<<2, 1>>] = "B.json"
    /\ last_placed_global = "B.json"
    /\ export_file[2] = <<Token("path", "B.json")>>

\* C40: in the picker the label of every slot matches the slot model: it
\* shows "[Empty]" if and only if the slot is empty, and the filename of the
\* slot otherwise, so that what is exported is what is displayed.
C40_LabelsMatchSlots ==
    gui = "picker" =>
        /\ DOMAIN slot_widgets = DOMAIN slots
        /\ \A k \in DOMAIN slots :
               /\ slot_widgets[k] = Empty <=> slots[k] = None
               /\ slots[k] # None => slot_widgets[k] = slots[k]

----------------------------------------------------------------------------
(* What print_summary leaves of the output directory *)

\* print_summary ends the run
Finalizes == pc = "done" /\ pc' = "finalized"

\* the files of kind k
FilesOfKind(fs, k) == {n \in DOMAIN fs : fs[n].kind = k}

\* C34: the cleanup at the end of a run never deletes a saved preset file:
\* the preset files of the output directory, those of an earlier run into
\* the same directory included, are there unchanged when print_summary
\* has run.
C34_CleanupKeepsSaved ==
    [][Finalizes =>
          \A n \in FilesOfKind(files, "preset") :
              n \in DOMAIN files' /\ files'[n] = files[n]]_vars

\* C35: the stub of a capture counted broken is still there when
\* print_summary has run, whatever the value of saved.
C35_StubsSurviveSummary ==
    [][Finalizes =>
          \A n \in FilesOfKind(files, "raw") :
              n \in DOMAIN files' /\ files'[n] = files[n]]_vars

----------------------------------------------------------------------------
(* Saved presets and stubs; announcements and payloads *)

\* C36: a preset file the converter has saved is not modified by any later
\* step of the run: no stub is written over it, and no capture is counted a
\* duplicate because of a stub.
C36_SavedIsNeverOverwritten ==
    [][(impl = "converter" /\ pc = "loop") =>
          /\ \A n \in Range(written) :
                 n \in DOMAIN files' /\ files'[n] = files[n]
          /\ conv'.skipped_dupe > conv.skipped_dupe =>
                 files[conv.current_filename].kind = "preset"]_vars

\* the five counters of the converter's extraction together
Counted(c) ==
    c.saved + c.skipped_dupe + c.skipped_no_filename + c.broken
        + c.skipped_not_in_list

\* the payload at line i of ls is taken for a filename: one of the counters
\* other than skipped_no_filename moves
Consumes(c, d) ==
    Counted(d) - d.skipped_no_filename > Counted(c) - c.skipped_no_filename

\* the announcement at j is the one the payload line at i belongs to: it is
\* the last announcement before i and no line between them holds the marker
AnnouncedFor(ls, j, i) ==
    /\ j < i
    /\ filename_match(ls[j])
    /\ \A k \in (j + 1)..(i - 1) : ~filename_match(ls[k]) /\ Find(ls[k], JS) = 0

\* C37: in the converter a payload is counted for the filename announced
\* last before it with no line holding the payload marker in between, an
\* announcement is used up by the payload that takes it, and every line
\* holding the marker moves exactly one of the five counters by one.
C37_OneAnnouncementOnePayload ==
    [][(impl = "converter" /\ pc = "loop" /\ pos <= Len(lines)) =>
          /\ Consumes(conv, conv') =>
                 /\ conv'.current_filename = NoName
                 /\ \E j \in 1..(pos - 1) :
                        /\ AnnouncedFor(lines, j, pos)
                        /\ filename_group(lines[j]) = conv.current_filename
          /\ Find(lines[pos], JS) # 0 => Counted(conv') = Counted(conv) + 1
          /\ Find(lines[pos], JS) = 0 => Counted(conv') = Counted(conv)]_vars

----------------------------------------------------------------------------
(* The requests and the opening of the transport *)

\* C38: when the transport has opened and is up, a consumer that waits for
\* the bank list has had LISTBANKS written to the transport, and one that
\* waits for the presets has had LISTPRESETS written as well: no request is
\* dropped for being made before the transport was open.
C38_RequestsAreWritten ==
    (ser = "open" /\ link = "ok") =>
        /\ c_pc \in {"wait_banks", "filter", "wait_presets"} =>
               "LISTBANKS" \in Range(sent)
        /\ c_pc = "wait_presets" => "LISTPRESETS" \in Range(sent)

====
